---- MODULE Spec2Model ----
(***************************************************************************)
(* Outreach scheduling and gating engine of corofy: the lead lifecycle     *)
(* (scraped_data.mail_status), the follow-up bookkeeping, the dead letter  *)
(* queue (failed_emails) and the passes that send mail through the relay   *)
(* webhook.                                                                *)
(*                                                                         *)
(* Time is the UTC clock `now`, counted in hours since a Monday 00:00 UTC. *)
(* A coroutine suspends at the relay call (the webhook POST): every pass   *)
(* is split there, the request being in flight between its two halves.    *)
(* Everything a handler does up to the relay call, and everything it does  *)
(* after the relay answered, is one step.  Database writes succeed.        *)
(*                                                                         *)
(* Fields that exist only to state properties (history variables):         *)
(*   scraped_data[l].initial_thread_id  thread id the lead held right      *)
(*                                      after its latest initial send      *)
(*   scraped_data[l].replied_pending    a reply was recorded while a       *)
(*                                      scheduled follow-up was unsent     *)
(*   scraped_data[l].queue_sends        relay calls made by queue passes   *)
(*                                      since the lead was last queued     *)
(*   scraped_data[l].followup_5day_delivered                               *)
(*                                      a 5-day follow-up was delivered    *)
(*   failed_emails[i].deliveries        relay calls made for the entry,    *)
(*                                      the failed one that created it     *)
(*                                      included                           *)
(* failed_emails[i].content stands for the stored subject and body: the    *)
(* type of the email the entry re-sends.                                   *)
(***************************************************************************)
EXTENDS Integers, Sequences, FiniteSets, TLC

(* ------------------------------ bounds --------------------------------- *)
NumLeads == 1
MaxHourTicks == 7
MaxLeaps == 2
MaxEntries == 3
StartInstant == 7

(* --------------------------- program constants ------------------------- *)
max_attempts == 3
batch_size == 400
FollowUp5Days == 5
FollowUp10Days == 10
retry_delays == <<3600, 7200, 14400>>

(* ------------------------------ model frame ---------------------------- *)
HoursPerDay == 24
NULL == 0 - 1
Leads == 1..NumLeads
ThreadIds == {1, 2}
Countries == {"", "Japan"}
EmailTypes == {"initial", "followup_5day", "followup_10day"}

VARIABLES now, scraped_data, failed_emails, api, dlq, fu, dlq2, queue, queue2, claimers,
          probe, emails_sent, generated, sweep, email_batches, runs, rate_limiter

(* The processes added to the first ones: a second retry sweep, the two   *)
(* queue passes and the callers of get_next_batch_leads; then the last     *)
(* call of a function that only computes (probe), the table emails_sent    *)
(* with the calls of generate_email_for_lead made so far (generated), and  *)
(* a retry sweep that keeps its counters (sweep).                          *)
others == <<dlq2, queue, queue2, claimers, probe, emails_sent, generated, sweep,
           email_batches, runs, rate_limiter>>

vars == <<now, scraped_data, failed_emails, api, dlq, fu, others>>

(* --------------------------- timezone_service -------------------------- *)
get_timezone_for_country(country) ==
    IF country = "" THEN "UTC"
    ELSE IF country = "Japan" THEN "Asia/Tokyo"
    ELSE IF country = "Colombia" THEN "America/Bogota"
    ELSE "UTC"

UtcOffset(timezone) ==
    IF timezone = "Asia/Tokyo" THEN 9
    ELSE IF timezone = "America/Bogota" THEN 0 - 5
    ELSE 0

LocalTime(timezone, t) == t + UtcOffset(timezone)

HourOf(t) == t % HoursPerDay

WeekdayOf(t) == (t \div HoursPerDay) % 7

DateOf(t) == t \div HoursPerDay

is_business_hoursInclusive(timezone, t, start_hour, end_hour) ==
    LET local == LocalTime(timezone, t)
        current_hour == HourOf(local)
        day_of_week == WeekdayOf(local)
        is_business_day == day_of_week < 6
        effective_end_hour == IF end_hour >= 18 THEN 18 ELSE end_hour
        is_within_hours == start_hour <= current_hour /\ current_hour <= effective_end_hour
    IN  is_business_day /\ is_within_hours

is_business_hours(timezone, t, start_hour, end_hour) ==
    LET local == LocalTime(timezone, t)
        current_hour == HourOf(local)
        day_of_week == WeekdayOf(local)
        is_business_day == day_of_week < 6
        effective_end_hour == IF end_hour >= 18 THEN 18 ELSE end_hour
        is_within_hours == start_hour <= current_hour /\ current_hour < effective_end_hour
    IN  is_business_day /\ is_within_hours

check_lead_business_hours(country, t, start_hour, end_hour) ==
    is_business_hours(get_timezone_for_country(country), t, start_hour, end_hour)

(* ----------------------------- mail relay ------------------------------ *)
Responses ==
    {[success |-> FALSE, thread_id |-> NULL]}
    \cup {[success |-> TRUE, thread_id |-> t] : t \in ThreadIds \cup {NULL}}

NoRequest == [lead |-> NULL, email_type |-> "", thread_ref |-> NULL]

WebhookRequest(l, email_type, gmail_thread_id) ==
    [lead |-> l, email_type |-> email_type,
     thread_ref |-> IF email_type \in {"followup_5day", "followup_10day"}
                    THEN gmail_thread_id ELSE NULL]

(* -------------------------- dead letter queue -------------------------- *)
DelayHours(i) == retry_delays[i + 1] \div 3600

add_failed_email(fe, l, content, t) ==
    Append(fe, [lead_id |-> l, attempt_count |-> 1, status |-> "pending",
                next_retry_at |-> t + DelayHours(0),
                content |-> content, deliveries |-> 1])

(* ------------------------- follow-up scheduling ------------------------ *)
schedule_followups_for_leadWeekly(rec, sent_at) ==
    [rec EXCEPT !.followup_5_scheduled_date = DateOf(sent_at + FollowUp5Days * HoursPerDay),
                !.followup_10_scheduled_date = DateOf(sent_at + 7 * HoursPerDay),
                !.followup_5_sent = "false",
                !.followup_10_sent = "false"]

schedule_followups_for_lead(rec, sent_at) ==
    [rec EXCEPT !.followup_5_scheduled_date = DateOf(sent_at + FollowUp5Days * HoursPerDay),
                !.followup_10_scheduled_date = DateOf(sent_at + FollowUp10Days * HoursPerDay),
                !.followup_5_sent = "false",
                !.followup_10_sent = "false"]

(* ------------- _send_email_immediately: after the relay call ----------- *)
SentStatusVerbatim(email_type) ==
    IF email_type = "initial" THEN "email_sent"
    ELSE IF email_type = "followup_5day" THEN "followup_5day_sent"
    ELSE IF email_type = "followup_10day" THEN "followup_10day_sent"
    ELSE email_type

SentStatus(email_type) ==
    IF email_type = "initial" THEN "email_sent"
    ELSE IF email_type = "followup_5day" THEN "followup_5day_sent"
    ELSE IF email_type = "followup_10day" THEN "followup_10day_sent"
    ELSE "email_sent"

MarkSent(rec, status_value, resp, t) ==
    [rec EXCEPT !.mail_status = status_value,
                !.sent_at = t,
                !.gmail_thread_id = IF resp.thread_id # NULL THEN resp.thread_id ELSE @]

SendImmediatelyLeadSpeculative(rec, email_type, resp, t) ==
    LET sent == MarkSent(rec, SentStatus(email_type), resp, t)
    IN  IF email_type = "initial"
        THEN [schedule_followups_for_lead(sent, t)
                EXCEPT !.initial_thread_id = sent.gmail_thread_id]
        ELSE IF email_type = "followup_5day"
        THEN [sent EXCEPT !.followup_5day_delivered = TRUE]
        ELSE sent

SendImmediatelyLead(rec, email_type, resp, t) ==
    IF resp.success
    THEN LET sent == MarkSent(rec, SentStatus(email_type), resp, t)
         IN  IF email_type = "initial"
             THEN [schedule_followups_for_lead(sent, t)
                     EXCEPT !.initial_thread_id = sent.gmail_thread_id]
             ELSE IF email_type = "followup_5day"
             THEN [sent EXCEPT !.followup_5day_delivered = TRUE]
             ELSE sent
    ELSE rec

SendImmediatelyDlq(fe, l, content, resp, t) ==
    IF resp.success THEN fe ELSE add_failed_email(fe, l, content, t)

CanRecord(resp) == resp.success \/ Len(failed_emails) < MaxEntries

(* ------------------------------- Init ---------------------------------- *)
NewLead(country) ==
    [mail_status |-> "new",
     company_country |-> country,
     followup_5_sent |-> "null",
     followup_10_sent |-> "null",
     followup_5_scheduled_date |-> NULL,
     followup_10_scheduled_date |-> NULL,
     gmail_thread_id |-> NULL,
     sent_at |-> NULL,
     mail_replies |-> NULL,
     scheduled_time |-> NULL,
     email_timezone |-> "UTC",
     initial_thread_id |-> NULL,
     replied_pending |-> FALSE,
     queue_sends |-> 0,
     followup_5day_delivered |-> FALSE,
     is_verified |-> TRUE,
     email_processed |-> "null"]

Idle == [pc |-> "idle", req |-> NoRequest, todo |-> <<>>]

(* The follow-up sweep also carries its counters and the number of due     *)
(* leads it found; when the sweep is idle they are those of its last run,  *)
(* and result tells whether it returned them ("counts") or an error.       *)
(* email_sending_service is whether the lazy loader of FollowUpService     *)
(* gets an EmailSendingService.                                            *)
FuIdle == [pc |-> "idle", req |-> NoRequest, todo |-> <<>>, skipped_timezone |-> 0,
           processed |-> 0, failed |-> 0, skipped_replied |-> 0, total |-> 0,
           result |-> "none", email_sending_service |-> TRUE]

Callers == {1, 2}

NoClaim == [pc |-> "idle", leads |-> {}]

(* A batch run: a caller of the batch tracking service, from its check of  *)
(* can_send_today to mark_complete.  batch is the id create_batch gave it. *)
NoRun == [pc |-> "idle", batch |-> NULL, automatic |-> FALSE]

(* The limiter's figures and its state before the first request; see     *)
(* core/rate_limiter below.                                                *)
min_delay == 2
time_window == 6
max_requests == 3
SleepBuffer == 1
FirstTick == 1
MaxClock == 8
MaxGrants == 4

NoLimiter ==
    [clock |-> FirstTick, last_request |-> NULL, requests |-> <<>>, granted |-> <<>>,
     co |-> [c \in Callers |-> [pc |-> "idle", wake |-> 0]]]

(* A retry sweep that counts: the rows its query found, the rows whose     *)
(* loop body was entered and those whose body raised are kept beside the   *)
(* counters the function returns.                                          *)
NoSweep == [pc |-> "idle", req |-> NoRequest, todo |-> <<>>, success |-> FALSE,
            processed |-> 0, succeeded |-> 0, failed |-> 0,
            found |-> {}, attempted |-> {}, raised |-> {}]

(* The table emails_sent holds at most one message per lead and email     *)
(* type.  No code of the repository inserts into it, so the program starts *)
(* with it empty; rows written by another party are drawn in InitEmails.   *)
NoRow == [email_subject |-> "", email_body |-> <<>>, company_website_used |-> FALSE,
          is_personalized |-> FALSE]

(* The last call of a function that only computes: its name, its          *)
(* arguments and what it returned.                                         *)
NoProbe == [op |-> "", args |-> <<>>, result |-> <<>>]

(* Two leads, for the passes that work through a list of leads. *)
NumQueueLeads == 2

QueueLeads == 1..NumQueueLeads

NoEmails == [l \in QueueLeads, email_type \in EmailTypes |-> NoRow]

InitTwoLeads ==
    /\ now = StartInstant
    /\ scraped_data \in {[l \in QueueLeads |-> NewLead(c[l])] : c \in [QueueLeads -> Countries]}
    /\ failed_emails = <<>>
    /\ api = Idle
    /\ dlq = Idle
    /\ fu = FuIdle
    /\ dlq2 = Idle
    /\ queue = Idle
    /\ queue2 = Idle
    /\ claimers = [c \in Callers |-> NoClaim]
    /\ probe = NoProbe
    /\ emails_sent = NoEmails
    /\ generated = <<>>
    /\ sweep = NoSweep
    /\ email_batches = <<>>
    /\ runs = [c \in Callers |-> NoRun]
    /\ rate_limiter = NoLimiter

(* Two leads as the batch selection finds them: verified or not, with     *)
(* email_processed null or false.  Every lead has a founder_email.         *)
InitBatch ==
    /\ now = StartInstant
    /\ scraped_data \in {[l \in QueueLeads |->
                              [NewLead("") EXCEPT !.is_verified = v[l],
                                                  !.email_processed = p[l]]] :
                          v \in [QueueLeads -> BOOLEAN],
                          p \in [QueueLeads -> {"null", "false"}]}
    /\ failed_emails = <<>>
    /\ api = Idle
    /\ dlq = Idle
    /\ fu = FuIdle
    /\ dlq2 = Idle
    /\ queue = Idle
    /\ queue2 = Idle
    /\ claimers = [c \in Callers |-> NoClaim]
    /\ probe = NoProbe
    /\ emails_sent = NoEmails
    /\ generated = <<>>
    /\ sweep = NoSweep
    /\ email_batches = <<>>
    /\ runs = [c \in Callers |-> NoRun]
    /\ rate_limiter = NoLimiter

(* Leads of a zone ahead of UTC and of a zone behind it. *)
Zones == {"Japan", "Colombia"}
InitZones ==
    /\ now = StartInstant
    /\ scraped_data \in {[l \in Leads |-> NewLead(c[l])] : c \in [Leads -> Zones]}
    /\ failed_emails = <<>>
    /\ api = Idle
    /\ dlq = Idle
    /\ fu = FuIdle
    /\ dlq2 = Idle
    /\ queue = Idle
    /\ queue2 = Idle
    /\ claimers = [c \in Callers |-> NoClaim]
    /\ probe = NoProbe
    /\ emails_sent = NoEmails
    /\ generated = <<>>
    /\ sweep = NoSweep
    /\ email_batches = <<>>
    /\ runs = [c \in Callers |-> NoRun]
    /\ rate_limiter = NoLimiter

Init ==
    /\ now = StartInstant
    /\ scraped_data \in {[l \in Leads |-> NewLead(c[l])] : c \in [Leads -> Countries]}
    /\ failed_emails = <<>>
    /\ api = Idle
    /\ dlq = Idle
    /\ fu = FuIdle
    /\ dlq2 = Idle
    /\ queue = Idle
    /\ queue2 = Idle
    /\ claimers = [c \in Callers |-> NoClaim]
    /\ probe = NoProbe
    /\ emails_sent = NoEmails
    /\ generated = <<>>
    /\ sweep = NoSweep
    /\ email_batches = <<>>
    /\ runs = [c \in Callers |-> NoRun]
    /\ rate_limiter = NoLimiter

(* A lead whose initial email went out five days ago. *)
InitFollowupDue ==
    /\ now = StartInstant + FollowUp5Days * HoursPerDay
    /\ scraped_data \in
          {[l \in Leads |->
               SendImmediatelyLead(NewLead(c[l]), "initial",
                                   [success |-> TRUE, thread_id |-> 1], StartInstant)] :
           c \in [Leads -> Countries]}
    /\ failed_emails = <<>>
    /\ api = Idle
    /\ dlq = Idle
    /\ fu = FuIdle
    /\ dlq2 = Idle
    /\ queue = Idle
    /\ queue2 = Idle
    /\ claimers = [c \in Callers |-> NoClaim]
    /\ probe = NoProbe
    /\ emails_sent = NoEmails
    /\ generated = <<>>
    /\ sweep = NoSweep
    /\ email_batches = <<>>
    /\ runs = [c \in Callers |-> NoRun]
    /\ rate_limiter = NoLimiter

(* Two leads whose initial email was delivered five days ago, and a        *)
(* FollowUpService that may be unable to build its EmailSendingService:     *)
(* OPENAI_API_KEY is optional in the settings, and the process may have     *)
(* been started without it after the initial emails went out.              *)
InitFollowupPass ==
    /\ now = StartInstant + FollowUp5Days * HoursPerDay
    /\ scraped_data \in
          {[l \in QueueLeads |->
               SendImmediatelyLead(NewLead(c[l]), "initial",
                                   [success |-> TRUE, thread_id |-> 1], StartInstant)] :
           c \in [QueueLeads -> Countries]}
    /\ failed_emails = <<>>
    /\ api = Idle
    /\ dlq = Idle
    /\ fu \in {[FuIdle EXCEPT !.email_sending_service = b] : b \in BOOLEAN}
    /\ dlq2 = Idle
    /\ queue = Idle
    /\ queue2 = Idle
    /\ claimers = [c \in Callers |-> NoClaim]
    /\ probe = NoProbe
    /\ emails_sent = NoEmails
    /\ generated = <<>>
    /\ sweep = NoSweep
    /\ email_batches = <<>>
    /\ runs = [c \in Callers |-> NoRun]
    /\ rate_limiter = NoLimiter

(* The lead of SpecPersonalization with messages another party stored. *)
StoredRows ==
    {NoRow} \cup {[email_subject |-> "stored", email_body |-> <<"template", "stored">>,
                   company_website_used |-> u, is_personalized |-> u] : u \in BOOLEAN}

InitEmails ==
    /\ now = StartInstant
    /\ scraped_data = [l \in Leads |-> NewLead("")]
    /\ failed_emails = <<>>
    /\ api = Idle
    /\ dlq = Idle
    /\ fu = FuIdle
    /\ dlq2 = Idle
    /\ queue = Idle
    /\ queue2 = Idle
    /\ claimers = [c \in Callers |-> NoClaim]
    /\ probe = NoProbe
    /\ emails_sent \in {[NoEmails EXCEPT ![1, "initial"] = r] : r \in StoredRows}
    /\ generated = <<>>
    /\ sweep = NoSweep
    /\ email_batches = <<>>
    /\ runs = [c \in Callers |-> NoRun]
    /\ rate_limiter = NoLimiter

(* ---------------------- email_personalization_service ------------------ *)
(* The answer of OpenAI (temperature 0.7) is an input of the call: one of  *)
(* several drafts, or a failure.  company_website_content is whether the   *)
(* website service has non-empty content for the lead's company.           *)
Drafts == {"draft1", "draft2"}
OpenAiAnswers == Drafts \cup {"fail"}

generate_email_for_lead(existing_record, force_regenerate, company_website_content, ai) ==
    LET cached == [success |-> TRUE, subject |-> existing_record.email_subject,
                   body |-> existing_record.email_body, from_cache |-> TRUE]
        generated_now ==
            IF ai # "fail"
            THEN [success |-> TRUE, subject |-> ai, body |-> <<"template", ai>>,
                  from_cache |-> FALSE]
            ELSE [success |-> TRUE, subject |-> "default", body |-> <<"template", "default">>,
                  from_cache |-> FALSE]
    IN  IF ~force_regenerate /\ existing_record # NoRow
        THEN IF company_website_content
             THEN IF ~existing_record.company_website_used \/ ~existing_record.is_personalized
                  THEN generated_now
                  ELSE cached
             ELSE cached
        ELSE generated_now

MaxCalls == 2

CallGenerateEmailForLead(l, email_type, force_regenerate, company_website_content, ai) ==
    /\ Len(generated) < MaxCalls
    /\ generated' = Append(generated,
            [lead_id |-> l, email_type |-> email_type, force_regenerate |-> force_regenerate,
             company_website_content |-> company_website_content,
             mail_status |-> scraped_data[l].mail_status,
             result |-> generate_email_for_lead(emails_sent[l, email_type], force_regenerate,
                                                company_website_content, ai)])
    /\ UNCHANGED <<now, scraped_data, failed_emails, api, dlq, fu, dlq2, queue, queue2,
                   claimers, probe, emails_sent, sweep, email_batches, runs,
                   rate_limiter>>

(* ------- email_personalization_service: the branch taken when the ----- *)
(* ------- content generator gives nothing usable                    ----- *)
(* A lead field is missing from the row (PyAbsent), null (PyNone) or a     *)
(* text.  dict.get returns the default only for a missing key; a null      *)
(* value is returned as it is.                                             *)
PyAbsent == "<absent>"
PyNone == "<None>"
PyGet(lead, key, default) == IF lead[key] = PyAbsent THEN default ELSE lead[key]
PyTruthy(v) == v \notin {PyNone, ""}

FounderNames == {PyAbsent, PyNone, "", "Ann Lee"}
FounderEmails == {PyAbsent, PyNone, "ann@acme.com"}
CompanyNames == {PyAbsent, PyNone, "Acme"}
CompanyIndustries == {PyAbsent, PyNone, "", "Lubricants", "Textiles"}
PyLeads ==
    [founder_name : FounderNames, founder_email : FounderEmails,
     company_name : CompanyNames, company_industry : CompanyIndustries]

(* str.split('@')[0] and str.split()[0] on the texts above. *)
BeforeAt(v) == IF v = "ann@acme.com" THEN "ann" ELSE v
FirstWord(v) == IF v = "Ann Lee" THEN "Ann" ELSE v
industry_mapping(v) == IF v = "Lubricants" THEN "Lubricant" ELSE "Other"

(* What generate_personalized_email answers when it has nothing usable:    *)
(* the API call raised, the text was not JSON, or the JSON had no body.    *)
(* Without website content a JSON without body is returned as a success    *)
(* with body None; with website content body.lower() raises inside the     *)
(* service, which answers success = false.                                 *)
UnusableAnswers == {"error", "not json", "no body"}
generate_personalized_email(company_website_content, ai) ==
    IF ai = "no body" /\ ~company_website_content
    THEN [success |-> TRUE, body |-> PyNone]
    ELSE [success |-> FALSE, body |-> PyNone]

Raised(e) == [success |-> FALSE, error |-> e]

(* generate_email_for_lead for a lead without stored email, from the call  *)
(* of the generator on: the success branch, the fallback branch and the    *)
(* handler of the enclosing try.                                           *)
generate_email_for_lead_unusable(lead, company_website_content, ai) ==
    LET email_result == generate_personalized_email(company_website_content, ai)
        founder_name == PyGet(lead, "founder_name", "")
        lead_name == IF PyTruthy(founder_name) THEN founder_name
                     ELSE IF PyTruthy(PyGet(lead, "founder_email", PyNone))
                          THEN BeforeAt(PyGet(lead, "founder_email", ""))
                          ELSE "there"
        greeting_name == IF PyTruthy(lead_name) THEN FirstWord(lead_name) ELSE "there"
        company_name == PyGet(lead, "company_name", "their company")
        frontend_industry == PyGet(lead, "company_industry", "")
        industry == IF PyTruthy(frontend_industry) THEN industry_mapping(frontend_industry)
                    ELSE "Other"
    IN  IF email_result.success
        THEN IF frontend_industry = PyNone
             THEN Raised("AttributeError")
             ELSE Raised("TypeError")
        ELSE IF frontend_industry = PyNone
             THEN Raised("AttributeError")
             ELSE [success |-> TRUE,
                   subject |-> <<"Potential collaboration with", company_name>>,
                   body |-> <<industry, greeting_name>>,
                   industry |-> industry,
                   is_personalized |-> FALSE,
                   used_default_template |-> TRUE]

CallGenerateUnusable(lead, company_website_content, ai) ==
    /\ probe.op = NoProbe.op
    /\ probe' = [op |-> "generate_email_for_lead",
                 args |-> <<lead, company_website_content, ai>>,
                 result |-> generate_email_for_lead_unusable(lead, company_website_content, ai)]
    /\ UNCHANGED <<now, scraped_data, failed_emails, api, dlq, fu, dlq2, queue, queue2,
                   claimers, emails_sent, generated,
                   sweep, email_batches, runs,
                   rate_limiter>>

(* ------- webhook_service: what send_email_via_webhook makes of the ----- *)
(* ------- relay's answer                                             ----- *)
(* An answer is how the POST ended (a response, a timeout, an HTTP error   *)
(* status raised by raise_for_status, another exception) and, for a        *)
(* response, its status code and its body: a JSON object with or without   *)
(* the fields success, message_id, gmail_thread_id and thread_id, a text   *)
(* that is not JSON, or JSON that is not an object.  An absent field is    *)
(* NULL; success is "true", "false" or "absent".                           *)
NoBody == [kind |-> "text", success |-> "absent", message_id |-> NULL,
           gmail_thread_id |-> NULL, thread_id |-> NULL]

RelayAnswers ==
    {[transport |-> t, status_code |-> NULL, body |-> NoBody] :
        t \in {"timeout", "http_error", "exception"}}
    \cup {[transport |-> "response", status_code |-> c, body |-> b] :
            c \in {200, 201, 204},
            b \in {NoBody, [NoBody EXCEPT !.kind = "array"]}
                  \cup [kind : {"object"}, success : {"true", "false", "absent"},
                        message_id : {NULL, 1}, gmail_thread_id : {NULL, 1},
                        thread_id : {NULL, 2}]}

send_email_via_webhook(answer) ==
    LET failure == [success |-> FALSE, message_id |-> NULL, thread_id |-> NULL]
        response_data == answer.body
        message_id == response_data.message_id
        gmail_thread_id == IF response_data.gmail_thread_id # NULL
                           THEN response_data.gmail_thread_id
                           ELSE response_data.thread_id
    IN  IF answer.transport # "response" THEN failure
        ELSE IF response_data.kind = "array" THEN failure
        ELSE IF answer.status_code \notin {200, 201} THEN failure
        ELSE IF response_data.success = "true"
        THEN [success |-> message_id # NULL /\ gmail_thread_id # NULL,
              message_id |-> message_id, thread_id |-> gmail_thread_id]
        ELSE IF message_id # NULL
        THEN [success |-> TRUE, message_id |-> message_id, thread_id |-> gmail_thread_id]
        ELSE failure

CallSendEmailViaWebhook(answer) ==
    /\ probe.op = NoProbe.op
    /\ probe' = [op |-> "send_email_via_webhook", args |-> <<answer>>,
                 result |-> send_email_via_webhook(answer)]
    /\ UNCHANGED <<now, scraped_data, failed_emails, api, dlq, fu, dlq2, queue, queue2,
                   claimers, emails_sent, generated,
                   sweep, email_batches, runs,
                   rate_limiter>>

(* ------------- timezone_service called at an arbitrary instant --------- *)
(* The instant is given in minutes since Monday 00:00 UTC; datetime.hour   *)
(* and datetime.weekday() drop the minutes.  The function keeps nothing    *)
(* between calls: a behaviour makes one call.                              *)
MinutesPerHour == 60

HourStamp(minute) == minute \div MinutesPerHour

WeekMinutes == {h * MinutesPerHour + k : h \in 0..(7 * HoursPerDay - 1), k \in {0, 59}}

Timezones == {"UTC", "Asia/Tokyo", "America/Bogota"}

StartHours == {8, 9}

EndHours == {17, 18, 19}

CallIsBusinessHours(timezone, minute, start_hour, end_hour) ==
    /\ probe.op = NoProbe.op
    /\ probe' = [op |-> "is_business_hours",
                 args |-> <<timezone, minute, start_hour, end_hour>>,
                 result |-> is_business_hours(timezone, HourStamp(minute),
                                              start_hour, end_hour)]
    /\ UNCHANGED <<now, scraped_data, failed_emails, api, dlq, fu, dlq2, queue, queue2,
                   claimers, emails_sent, generated,
                   sweep, email_batches, runs,
                   rate_limiter>>

CallCheckLeadBusinessHours(country, minute, start_hour, end_hour) ==
    /\ probe.op = NoProbe.op
    /\ probe' = [op |-> "check_lead_business_hours",
                 args |-> <<get_timezone_for_country(country), minute, start_hour, end_hour>>,
                 result |-> check_lead_business_hours(country, HourStamp(minute),
                                                      start_hour, end_hour)]
    /\ UNCHANGED <<now, scraped_data, failed_emails, api, dlq, fu, dlq2, queue, queue2,
                   claimers, emails_sent, generated,
                   sweep, email_batches, runs,
                   rate_limiter>>

(* ------------------------------ the clock ------------------------------ *)
TickHour ==
    /\ (now - StartInstant) % HoursPerDay < MaxHourTicks
    /\ now' = now + 1
    /\ UNCHANGED <<scraped_data, failed_emails, api, dlq, fu, others>>

TickDays ==
    /\ (now - StartInstant) \div (FollowUp5Days * HoursPerDay) < MaxLeaps
    /\ now' = now + FollowUp5Days * HoursPerDay
    /\ UNCHANGED <<scraped_data, failed_emails, api, dlq, fu, others>>

(* ------- POST /api/emails/send/{lead_id}: send_email_to_lead ----------- *)
ApiSendCall(l, email_type) ==
    /\ api.pc = "idle"
    /\ api' = [pc |-> "awaiting",
               req |-> WebhookRequest(l, email_type, scraped_data[l].gmail_thread_id),
               todo |-> <<>>]
    /\ UNCHANGED <<now, scraped_data, failed_emails, dlq, fu, others>>

ApiSendReturn(resp) ==
    /\ api.pc = "awaiting"
    /\ CanRecord(resp)
    /\ LET l == api.req.lead
           email_type == api.req.email_type
       IN  /\ scraped_data' = [scraped_data EXCEPT
                   ![l] = SendImmediatelyLead(@, email_type, resp, now)]
           /\ failed_emails' = SendImmediatelyDlq(failed_emails, l, email_type, resp, now)
    /\ api' = Idle
    /\ UNCHANGED <<now, dlq, fu, others>>

(* ------------------- reply_service._analyze_reply ---------------------- *)
Outstanding(scheduled_date, marker) == scheduled_date # NULL /\ marker # "true"

FollowupPending(rec) ==
    \/ Outstanding(rec.followup_5_scheduled_date, rec.followup_5_sent)
    \/ Outstanding(rec.followup_10_scheduled_date, rec.followup_10_sent)

AnalyzeReply(l, analysis_ok) ==
    /\ scraped_data[l].gmail_thread_id # NULL
    /\ scraped_data[l].mail_status # "reply_received"
    /\ scraped_data' = [scraped_data EXCEPT
           ![l].mail_status = "reply_received",
           ![l].mail_replies = IF analysis_ok THEN 1 ELSE @,
           ![l].replied_pending = @ \/ FollowupPending(scraped_data[l])]
    /\ UNCHANGED <<now, failed_emails, api, dlq, fu, others>>

(* ---------------- dead_letter_queue_service: the retry sweep ----------- *)
RetryReady(e, t) == e.status = "pending" /\ e.next_retry_at <= t

RECURSIVE ReadyRows(_, _, _)
ReadyRows(fe, i, t) ==
    IF i > Len(fe) THEN <<>>
    ELSE IF RetryReady(fe[i], t)
         THEN <<[id |-> i, attempt_count |-> fe[i].attempt_count]>> \o ReadyRows(fe, i + 1, t)
         ELSE ReadyRows(fe, i + 1, t)

_update_status(fe, dlq_id, status) == [fe EXCEPT ![dlq_id].status = status]

_mark_resolved(fe, dlq_id) == [fe EXCEPT ![dlq_id].status = "resolved"]

_mark_permanently_failed(fe, dlq_id) == [fe EXCEPT ![dlq_id].status = "failed"]

_schedule_retry(fe, dlq_id, attempt_count, next_retry) ==
    [fe EXCEPT ![dlq_id].status = "pending",
               ![dlq_id].attempt_count = attempt_count,
               ![dlq_id].next_retry_at = next_retry]

Min(a, b) == IF a < b THEN a ELSE b

RetryOutcomeLate(fe, row, resp, t) ==
    IF resp.success
    THEN _mark_resolved(fe, row.id)
    ELSE LET new_attempt_count == row.attempt_count + 1
         IN  IF new_attempt_count > max_attempts
             THEN _mark_permanently_failed(fe, row.id)
             ELSE LET delay_index == Min(new_attempt_count - 1, Len(retry_delays) - 1)
                  IN  _schedule_retry(fe, row.id, new_attempt_count,
                                      t + DelayHours(delay_index))

RetryOutcomeFirstDelay(fe, row, resp, t) ==
    IF resp.success
    THEN _mark_resolved(fe, row.id)
    ELSE LET new_attempt_count == row.attempt_count + 1
         IN  IF new_attempt_count >= max_attempts
             THEN _mark_permanently_failed(fe, row.id)
             ELSE _schedule_retry(fe, row.id, new_attempt_count, t + DelayHours(0))

RetryOutcome(fe, row, resp, t) ==
    IF resp.success
    THEN _mark_resolved(fe, row.id)
    ELSE LET new_attempt_count == row.attempt_count + 1
         IN  IF new_attempt_count >= max_attempts
             THEN _mark_permanently_failed(fe, row.id)
             ELSE LET delay_index == Min(new_attempt_count - 1, Len(retry_delays) - 1)
                  IN  _schedule_retry(fe, row.id, new_attempt_count,
                                      t + DelayHours(delay_index))

DlqStart ==
    /\ dlq.pc = "idle"
    /\ ReadyRows(failed_emails, 1, now) # <<>>
    /\ dlq' = [pc |-> "running", req |-> NoRequest,
               todo |-> ReadyRows(failed_emails, 1, now)]
    /\ UNCHANGED <<now, scraped_data, failed_emails, api, fu, others>>

DlqStep ==
    /\ dlq.pc = "running"
    /\ LET row == Head(dlq.todo)
           entry == failed_emails[row.id]
       IN  /\ failed_emails' = [_update_status(failed_emails, row.id, "retrying")
                                   EXCEPT ![row.id].deliveries = @ + 1]
           /\ dlq' = [dlq EXCEPT !.pc = "awaiting",
                                 !.req = WebhookRequest(entry.lead_id, "retry", NULL)]
    /\ UNCHANGED <<now, scraped_data, api, fu, others>>

DlqReturn(resp) ==
    /\ dlq.pc = "awaiting"
    /\ CanRecord(resp)
    /\ LET row == Head(dlq.todo)
           entry == failed_emails[row.id]
           l == entry.lead_id
       IN  /\ scraped_data' = [scraped_data EXCEPT
                   ![l] = SendImmediatelyLead(@, "retry", resp, now)]
           /\ failed_emails' = RetryOutcome(
                   SendImmediatelyDlq(failed_emails, l, entry.content, resp, now),
                   row, resp, now)
    /\ dlq' = [pc |-> IF Tail(dlq.todo) = <<>> THEN "idle" ELSE "running",
               req |-> NoRequest, todo |-> Tail(dlq.todo)]
    /\ UNCHANGED <<now, api, fu, others>>

(* A second instance of the retry sweep: retry_failed_emails as run by the *)
(* scheduler of another process of the application over the same tables.   *)
(* retry_failed_emails with its counters and with the loop body raising.  *)
(* The helpers and _send_email_immediately catch their own exceptions, so  *)
(* the body raises only while it reads the fields of the row: id, lead_id  *)
(* and attempt_count before _update_status, email_to, subject and body     *)
(* after it.                                                               *)
RowIds(rows) == {rows[i].id : i \in DOMAIN rows}

SweepNext(sw, todo) ==
    [sw EXCEPT !.pc = IF todo = <<>> THEN "returned" ELSE "running",
               !.success = TRUE, !.req = NoRequest, !.todo = todo]

SweepStart ==
    /\ sweep.pc = "idle"
    /\ LET retry_emails == ReadyRows(failed_emails, 1, now)
       IN  sweep' = SweepNext([NoSweep EXCEPT !.found = RowIds(retry_emails)], retry_emails)
    /\ UNCHANGED <<now, scraped_data, failed_emails, api, dlq, fu, dlq2, queue, queue2,
                   claimers, probe, emails_sent, generated,
                   email_batches, runs,
                   rate_limiter>>

SweepRaiseAborts(after_update) ==
    /\ sweep.pc = "running"
    /\ LET row == Head(sweep.todo)
       IN  /\ failed_emails' = IF after_update
                               THEN _update_status(failed_emails, row.id, "retrying")
                               ELSE failed_emails
           /\ sweep' = [sweep EXCEPT !.pc = "returned", !.success = FALSE, !.req = NoRequest,
                                     !.todo = <<>>, !.processed = 0, !.succeeded = 0,
                                     !.failed = 0,
                                     !.attempted = @ \cup {row.id},
                                     !.raised = @ \cup {row.id}]
    /\ UNCHANGED <<now, scraped_data, api, dlq, fu, dlq2, queue, queue2,
                   claimers, probe, emails_sent, generated,
                   email_batches, runs,
                   rate_limiter>>

SweepRaise(after_update) ==
    /\ sweep.pc = "running"
    /\ LET row == Head(sweep.todo)
       IN  /\ failed_emails' = IF after_update
                               THEN _update_status(failed_emails, row.id, "retrying")
                               ELSE failed_emails
           /\ sweep' = SweepNext([sweep EXCEPT !.failed = @ + 1,
                                               !.attempted = @ \cup {row.id},
                                               !.raised = @ \cup {row.id}],
                                 Tail(sweep.todo))
    /\ UNCHANGED <<now, scraped_data, api, dlq, fu, dlq2, queue, queue2,
                   claimers, probe, emails_sent, generated,
                   email_batches, runs,
                   rate_limiter>>

SweepStep ==
    /\ sweep.pc = "running"
    /\ LET row == Head(sweep.todo)
           entry == failed_emails[row.id]
       IN  /\ failed_emails' = [_update_status(failed_emails, row.id, "retrying")
                                   EXCEPT ![row.id].deliveries = @ + 1]
           /\ sweep' = [sweep EXCEPT !.pc = "awaiting",
                                     !.req = WebhookRequest(entry.lead_id, "retry", NULL),
                                     !.attempted = @ \cup {row.id}]
    /\ UNCHANGED <<now, scraped_data, api, dlq, fu, dlq2, queue, queue2,
                   claimers, probe, emails_sent, generated,
                   email_batches, runs,
                   rate_limiter>>

SweepReturn(resp) ==
    /\ sweep.pc = "awaiting"
    /\ CanRecord(resp)
    /\ LET row == Head(sweep.todo)
           entry == failed_emails[row.id]
           l == entry.lead_id
       IN  /\ scraped_data' = [scraped_data EXCEPT
                   ![l] = SendImmediatelyLead(@, "retry", resp, now)]
           /\ failed_emails' = RetryOutcome(
                   SendImmediatelyDlq(failed_emails, l, entry.content, resp, now),
                   row, resp, now)
    /\ sweep' = SweepNext([sweep EXCEPT !.processed = @ + 1,
                                        !.succeeded = IF resp.success THEN @ + 1 ELSE @,
                                        !.failed = IF resp.success THEN @ ELSE @ + 1],
                          Tail(sweep.todo))
    /\ UNCHANGED <<now, api, dlq, fu, dlq2, queue, queue2,
                   claimers, probe, emails_sent, generated,
                   email_batches, runs,
                   rate_limiter>>

(* The scheduler job has its result; the next sweep starts from nothing. *)
SweepDone ==
    /\ sweep.pc = "returned"
    /\ sweep' = NoSweep
    /\ UNCHANGED <<now, scraped_data, failed_emails, api, dlq, fu, dlq2, queue, queue2,
                   claimers, probe, emails_sent, generated,
                   email_batches, runs,
                   rate_limiter>>

Dlq2Start ==
    /\ dlq2.pc = "idle"
    /\ ReadyRows(failed_emails, 1, now) # <<>>
    /\ dlq2' = [pc |-> "running", req |-> NoRequest,
                todo |-> ReadyRows(failed_emails, 1, now)]
    /\ UNCHANGED <<now, scraped_data, failed_emails, api, dlq, fu, queue, queue2, claimers, probe, emails_sent,
                   generated, sweep, email_batches, runs,
                   rate_limiter>>

Dlq2Step ==
    /\ dlq2.pc = "running"
    /\ LET row == Head(dlq2.todo)
           entry == failed_emails[row.id]
       IN  /\ failed_emails' = [_update_status(failed_emails, row.id, "retrying")
                                   EXCEPT ![row.id].deliveries = @ + 1]
           /\ dlq2' = [dlq2 EXCEPT !.pc = "awaiting",
                                   !.req = WebhookRequest(entry.lead_id, "retry", NULL)]
    /\ UNCHANGED <<now, scraped_data, api, dlq, fu, queue, queue2, claimers, probe, emails_sent,
                   generated, sweep, email_batches, runs,
                   rate_limiter>>

Dlq2Return(resp) ==
    /\ dlq2.pc = "awaiting"
    /\ CanRecord(resp)
    /\ LET row == Head(dlq2.todo)
           entry == failed_emails[row.id]
           l == entry.lead_id
       IN  /\ scraped_data' = [scraped_data EXCEPT
                   ![l] = SendImmediatelyLead(@, "retry", resp, now)]
           /\ failed_emails' = RetryOutcome(
                   SendImmediatelyDlq(failed_emails, l, entry.content, resp, now),
                   row, resp, now)
    /\ dlq2' = [pc |-> IF Tail(dlq2.todo) = <<>> THEN "idle" ELSE "running",
                req |-> NoRequest, todo |-> Tail(dlq2.todo)]
    /\ UNCHANGED <<now, api, dlq, fu, queue, queue2, claimers, probe, emails_sent,
                   generated, sweep, email_batches, runs,
                   rate_limiter>>

(* ---------------- followup_service: process_due_followups ------------- *)
Unsent(marker) == marker \in {"null", "false"}

Due5(rec, today) ==
    /\ rec.mail_status = "email_sent"
    /\ Unsent(rec.followup_5_sent)
    /\ rec.followup_5_scheduled_date # NULL
    /\ rec.followup_5_scheduled_date <= today

Due10(rec, today) ==
    /\ rec.mail_status = "followup_5day_sent"
    /\ Unsent(rec.followup_10_sent)
    /\ rec.followup_10_scheduled_date # NULL
    /\ rec.followup_10_scheduled_date <= today

RECURSIVE DueRows(_, _, _, _)
DueRows(sd, l, followup_type, today) ==
    IF l > Len(sd) THEN <<>>
    ELSE IF /\ IF followup_type = "5day" THEN Due5(sd[l], today) ELSE Due10(sd[l], today)
            /\ sd[l].mail_status # "reply_received"
         THEN <<[lead |-> l, followup_type |-> followup_type,
                 mail_status |-> sd[l].mail_status]>>
              \o DueRows(sd, l + 1, followup_type, today)
         ELSE DueRows(sd, l + 1, followup_type, today)

AllDueLeads(sd, t) ==
    DueRows(sd, 1, "5day", DateOf(t)) \o DueRows(sd, 1, "10day", DateOf(t))

FollowupEmailType(followup_type) ==
    IF followup_type = "5day" THEN "followup_5day" ELSE "followup_10day"

FollowupMark(rec, followup_type, resp) ==
    IF resp.success
    THEN LET marked == IF followup_type = "5day"
                       THEN [rec EXCEPT !.mail_status = "followup_5day_sent",
                                        !.followup_5_sent = "true"]
                       ELSE [rec EXCEPT !.mail_status = "followup_10day_sent",
                                        !.followup_10_sent = "true"]
         IN  [marked EXCEPT !.gmail_thread_id =
                                IF resp.thread_id # NULL THEN resp.thread_id ELSE @]
    ELSE rec

(* The next item of the loop, or the return of the counts. *)
FuNext(f, todo) ==
    [f EXCEPT !.pc = IF todo = <<>> THEN "idle" ELSE "running",
              !.req = NoRequest, !.todo = todo,
              !.result = IF todo = <<>> THEN "counts" ELSE "none"]

(* The service cannot be built: the function returns an error from inside  *)
(* the loop.                                                               *)
FuNotConfigured(f) ==
    [f EXCEPT !.pc = "idle", !.req = NoRequest, !.todo = <<>>, !.result = "error"]

FuStart ==
    /\ fu.pc = "idle"
    /\ AllDueLeads(scraped_data, now) # <<>>
    /\ fu' = FuNext([FuIdle EXCEPT !.total = Len(AllDueLeads(scraped_data, now)),
                                   !.email_sending_service = fu.email_sending_service],
                    AllDueLeads(scraped_data, now))
    /\ UNCHANGED <<now, scraped_data, failed_emails, api, dlq, others>>

FuStepMarksSkipped(gen_ok) ==
    /\ fu.pc = "running"
    /\ LET item == Head(fu.todo)
           l == item.lead
       IN  IF item.mail_status = "reply_received"
           THEN /\ scraped_data' =
                      IF item.followup_type = "5day"
                      THEN [scraped_data EXCEPT ![l].followup_5_sent = "cancelled"]
                      ELSE [scraped_data EXCEPT ![l].followup_10_sent = "cancelled"]
                /\ fu' = FuNext([fu EXCEPT !.skipped_replied = @ + 1], Tail(fu.todo))
           ELSE IF ~check_lead_business_hours(scraped_data[l].company_country, now, 9, 18)
           THEN /\ scraped_data' =
                      IF item.followup_type = "5day"
                      THEN [scraped_data EXCEPT ![l].followup_5_sent = "true"]
                      ELSE [scraped_data EXCEPT ![l].followup_10_sent = "true"]
                /\ fu' = FuNext([fu EXCEPT !.skipped_timezone = @ + 1], Tail(fu.todo))
           ELSE /\ UNCHANGED scraped_data
                /\ IF ~fu.email_sending_service
                   THEN fu' = FuNotConfigured(fu)
                   ELSE IF gen_ok
                   THEN fu' = [fu EXCEPT !.pc = "awaiting",
                                         !.req = WebhookRequest(l,
                                                    FollowupEmailType(item.followup_type),
                                                    scraped_data[l].gmail_thread_id)]
                   ELSE fu' = FuNext([fu EXCEPT !.failed = @ + 1], Tail(fu.todo))
    /\ UNCHANGED <<now, failed_emails, api, dlq, others>>

FuStep(gen_ok) ==
    /\ fu.pc = "running"
    /\ LET item == Head(fu.todo)
           l == item.lead
       IN  IF item.mail_status = "reply_received"
           THEN /\ scraped_data' =
                      IF item.followup_type = "5day"
                      THEN [scraped_data EXCEPT ![l].followup_5_sent = "cancelled"]
                      ELSE [scraped_data EXCEPT ![l].followup_10_sent = "cancelled"]
                /\ fu' = FuNext([fu EXCEPT !.skipped_replied = @ + 1], Tail(fu.todo))
           ELSE IF ~check_lead_business_hours(scraped_data[l].company_country, now, 9, 18)
           THEN /\ UNCHANGED scraped_data
                /\ fu' = FuNext([fu EXCEPT !.skipped_timezone = @ + 1], Tail(fu.todo))
           ELSE /\ UNCHANGED scraped_data
                /\ IF ~fu.email_sending_service
                   THEN fu' = FuNotConfigured(fu)
                   ELSE IF gen_ok
                   THEN fu' = [fu EXCEPT !.pc = "awaiting",
                                         !.req = WebhookRequest(l,
                                                    FollowupEmailType(item.followup_type),
                                                    scraped_data[l].gmail_thread_id)]
                   ELSE fu' = FuNext([fu EXCEPT !.failed = @ + 1], Tail(fu.todo))
    /\ UNCHANGED <<now, failed_emails, api, dlq, others>>

FuReturn(resp) ==
    /\ fu.pc = "awaiting"
    /\ CanRecord(resp)
    /\ LET item == Head(fu.todo)
           l == item.lead
           email_type == fu.req.email_type
       IN  /\ scraped_data' = [scraped_data EXCEPT
                   ![l] = FollowupMark(SendImmediatelyLead(@, email_type, resp, now),
                                       item.followup_type, resp)]
           /\ failed_emails' = SendImmediatelyDlq(failed_emails, l, email_type, resp, now)
    /\ fu' = FuNext(IF resp.success THEN [fu EXCEPT !.processed = @ + 1]
                                     ELSE [fu EXCEPT !.failed = @ + 1],
                    Tail(fu.todo))
    /\ UNCHANGED <<now, api, dlq, others>>

(* ------------- email_sending_service: queue_email_for_lead ------------- *)
DayStart(t) == (t \div HoursPerDay) * HoursPerDay

(* The next business-hours slot, as a wall-clock time of the lead's zone. *)
NextBusinessSlot(local) ==
    LET weekday == WeekdayOf(local)
        hour == HourOf(local)
        at9(days_ahead) == DayStart(local + days_ahead * HoursPerDay) + 9
        slot == IF weekday = 6 THEN at9(1)
                ELSE IF weekday = 5 /\ hour >= 18 THEN at9(2)
                ELSE IF weekday < 5 /\ hour >= 18 THEN at9(1)
                ELSE IF weekday < 6 /\ hour < 9 THEN at9(0)
                ELSE IF HourOf(local + 1) >= 18 THEN at9(1)
                ELSE local + 1
    IN  IF WeekdayOf(slot) = 6 THEN DayStart(slot + HoursPerDay) + 9 ELSE slot

queue_email_for_lead(rec, company_country, t) ==
    LET timezone == get_timezone_for_country(company_country)
    IN  [rec EXCEPT !.mail_status = "scheduled",
                    !.scheduled_time = NextBusinessSlot(LocalTime(timezone, t)),
                    !.email_timezone = timezone,
                    !.queue_sends = 0]

(* _send_emails_to_leads, for a lead outside business hours: the email is  *)
(* generated and queued.                                                   *)
BatchQueue(l) ==
    /\ ~check_lead_business_hours(scraped_data[l].company_country, now, 9, 19)
    /\ scraped_data' = [scraped_data EXCEPT
           ![l] = queue_email_for_lead(@, scraped_data[l].company_country, now)]
    /\ UNCHANGED <<now, failed_emails, api, dlq, fu, others>>

(* _send_emails_to_leads decides to queue from the business-hours check of *)
(* its first step; the website scrape and the email generation are awaited *)
(* before queue_email_for_lead reads the clock again.  checked_at is the    *)
(* clock reading of the check: this hour or the hour before.               *)
BatchQueueSlow(l) ==
    /\ \E checked_at \in {now - 1, now} :
          /\ checked_at >= StartInstant
          /\ DateOf(checked_at) = DateOf(now)
          /\ ~check_lead_business_hours(scraped_data[l].company_country, checked_at, 9, 19)
    /\ scraped_data' = [scraped_data EXCEPT
           ![l] = queue_email_for_lead(@, scraped_data[l].company_country, now)]
    /\ UNCHANGED <<now, failed_emails, api, dlq, fu, others>>

(* ------------- email_sending_service: process_email_queue -------------- *)
RECURSIVE ScheduledRows(_, _)
ScheduledRows(sd, l) ==
    IF l > Len(sd) THEN <<>>
    ELSE IF sd[l].mail_status = "scheduled"
         THEN <<[lead |-> l, scheduled_time |-> sd[l].scheduled_time,
                 email_timezone |-> sd[l].email_timezone]>> \o ScheduledRows(sd, l + 1)
         ELSE ScheduledRows(sd, l + 1)

QueueBusinessHours(timezone, t) ==
    LET now_local == LocalTime(timezone, t)
        day_of_week == WeekdayOf(now_local)
        current_hour == HourOf(now_local)
        is_business_day == day_of_week < 6
    IN  is_business_day /\ 9 <= current_hour /\ current_hour < 18

(* scheduled_time.replace(tzinfo=UTC) keeps the wall-clock reading of the  *)
(* stored time and compares it with the UTC clock.                         *)
ReadyRow(row, t) ==
    /\ row.scheduled_time # NULL
    /\ ~(row.scheduled_time > t)
    /\ QueueBusinessHours(row.email_timezone, t)

RECURSIVE SkipUnready(_, _)
SkipUnready(rows, t) ==
    IF rows = <<>> THEN <<>>
    ELSE IF ReadyRow(Head(rows), t) THEN rows
    ELSE SkipUnready(Tail(rows), t)

(* The pass runs on, skipping, to its next suspension: the sleep it starts *)
(* right after writing 'sending' for the first row that is ready.          *)
QueueAdvance(rows, t) ==
    LET rest == SkipUnready(rows, t)
    IN  [pc |-> IF rest = <<>> THEN "idle" ELSE "sleeping", req |-> NoRequest, todo |-> rest]

MarkSending(sd, pass) ==
    IF pass.todo = <<>> THEN sd
    ELSE [sd EXCEPT ![Head(pass.todo).lead].mail_status = "sending"]

QueueMarkSent(rec, resp, t) ==
    [rec EXCEPT !.mail_status = "email_sent",
                !.sent_at = t,
                !.gmail_thread_id = IF resp.thread_id # NULL THEN resp.thread_id ELSE @]

QueueMarkFailed(rec) == [rec EXCEPT !.mail_status = "failed"]

QueueStartOf(p, q) ==
    /\ p.pc = "idle"
    /\ q = QueueAdvance(ScheduledRows(scraped_data, 1), now)
    /\ q.pc = "sleeping"
    /\ scraped_data' = MarkSending(scraped_data, q)
    /\ UNCHANGED <<now, failed_emails>>

QueueSendOf(p, q, gen_ok) ==
    /\ p.pc = "sleeping"
    /\ LET l == Head(p.todo).lead
       IN  IF gen_ok
           THEN /\ q = [p EXCEPT !.pc = "awaiting",
                                 !.req = WebhookRequest(l, "initial", NULL)]
                /\ scraped_data' = [scraped_data EXCEPT ![l].queue_sends = @ + 1]
           ELSE /\ q = QueueAdvance(Tail(p.todo), now)
                /\ scraped_data' = MarkSending(
                       [scraped_data EXCEPT ![l] = QueueMarkFailed(@)], q)
    /\ UNCHANGED <<now, failed_emails>>

QueueReturnOf(p, q, resp) ==
    /\ p.pc = "awaiting"
    /\ CanRecord(resp)
    /\ LET l == Head(p.todo).lead
       IN  /\ q = QueueAdvance(Tail(p.todo), now)
           /\ scraped_data' = MarkSending(
                  [scraped_data EXCEPT ![l] = IF resp.success
                                              THEN QueueMarkSent(@, resp, now)
                                              ELSE QueueMarkFailed(@)], q)
           /\ failed_emails' = IF resp.success THEN failed_emails
                               ELSE add_failed_email(failed_emails, l, "initial", now)
    /\ UNCHANGED now

(* The scheduler's 15-minute job. *)
QueueStart ==
    QueueStartOf(queue, queue') /\ UNCHANGED <<api, dlq, fu, dlq2, queue2, claimers, probe, emails_sent,
                   generated, sweep, email_batches, runs,
                   rate_limiter>>

QueueSend(gen_ok) ==
    QueueSendOf(queue, queue', gen_ok) /\ UNCHANGED <<api, dlq, fu, dlq2, queue2, claimers, probe, emails_sent,
                   generated, sweep, email_batches, runs,
                   rate_limiter>>

QueueReturn(resp) ==
    QueueReturnOf(queue, queue', resp) /\ UNCHANGED <<api, dlq, fu, dlq2, queue2, claimers, probe, emails_sent,
                   generated, sweep, email_batches, runs,
                   rate_limiter>>

(* POST /api/emails/queue/process. *)
Queue2Start ==
    QueueStartOf(queue2, queue2') /\ UNCHANGED <<api, dlq, fu, dlq2, queue, claimers, probe, emails_sent,
                   generated, sweep, email_batches, runs,
                   rate_limiter>>

Queue2Send(gen_ok) ==
    QueueSendOf(queue2, queue2', gen_ok) /\ UNCHANGED <<api, dlq, fu, dlq2, queue, claimers, probe, emails_sent,
                   generated, sweep, email_batches, runs,
                   rate_limiter>>

Queue2Return(resp) ==
    QueueReturnOf(queue2, queue2', resp) /\ UNCHANGED <<api, dlq, fu, dlq2, queue, claimers, probe, emails_sent,
                   generated, sweep, email_batches, runs,
                   rate_limiter>>

(* -------- simplified_email_tracking_service: can_send_today ------------ *)
(* date.today() is the date on the host's clock, host_offset hours from    *)
(* UTC; today_start carries no zone and is compared with sent_at, which    *)
(* every writer stores as UTC time.                                        *)
HostOffsets == {0, 12}

can_send_today(sd, t, host_offset) ==
    LET today == DateOf(t + host_offset)
        today_start == today * HoursPerDay
        sent_today_count ==
            Cardinality({l \in DOMAIN sd : sd[l].sent_at # NULL /\ sd[l].sent_at >= today_start})
    IN  ~(sent_today_count > 0)

(* ------ simplified_email_tracking_service: get_next_batch_leads -------- *)
(* The function issues a SELECT and then, as a second request, an UPDATE   *)
(* of the selected ids: another caller's requests can fall between them.   *)
BatchSelectable(rec, email_processed) ==
    /\ rec.is_verified
    /\ rec.email_processed = email_processed
    /\ rec.mail_status \notin {"email_sent", "reply_received", "followup_10day_sent",
                                "processing"}

BatchRows(sd) ==
    LET unprocessed == {l \in DOMAIN sd : BatchSelectable(sd[l], "null")}
    IN  IF unprocessed # {} THEN unprocessed
        ELSE {l \in DOMAIN sd : BatchSelectable(sd[l], "false")}

(* .limit(batch_size), the query giving no order. *)
Limited(rows) ==
    IF Cardinality(rows) <= batch_size THEN {rows}
    ELSE {some \in SUBSET rows : Cardinality(some) = batch_size}

LockLeads(sd, lead_ids) ==
    [l \in DOMAIN sd |-> IF l \in lead_ids THEN [sd[l] EXCEPT !.mail_status = "processing"]
                                            ELSE sd[l]]

BatchSelect(c) ==
    /\ claimers[c].pc = "idle"
    /\ \E leads \in Limited(BatchRows(scraped_data)) :
          claimers' = [claimers EXCEPT ![c] =
                          [pc |-> IF leads = {} THEN "returned" ELSE "selected",
                           leads |-> leads]]
    /\ UNCHANGED <<now, scraped_data, failed_emails, api, dlq, fu, dlq2, queue, queue2, probe, emails_sent,
                   generated, sweep, email_batches, runs,
                   rate_limiter>>

BatchLock(c) ==
    /\ claimers[c].pc = "selected"
    /\ scraped_data' = LockLeads(scraped_data, claimers[c].leads)
    /\ claimers' = [claimers EXCEPT ![c].pc = "returned"]
    /\ UNCHANGED <<now, failed_emails, api, dlq, fu, dlq2, queue, queue2, probe, emails_sent,
                   generated, sweep, email_batches, runs,
                   rate_limiter>>

(* The caller is done with what it was given and may call again. *)
BatchDone(c) ==
    /\ claimers[c].pc = "returned"
    /\ claimers' = [claimers EXCEPT ![c] = NoClaim]
    /\ UNCHANGED <<now, scraped_data, failed_emails, api, dlq, fu, dlq2, queue, queue2, probe, emails_sent,
                   generated, sweep, email_batches, runs,
                   rate_limiter>>

(* ------------------------ batch_tracking_service ------------------------ *)
(* A row of email_batches: its status, its processed_count, and in         *)
(* automatic the batch type its creator put in batch_metadata.  cancelled  *)
(* is history: cancel_batch was called for the row.                        *)
MaxBatches == 2

create_batch(batches, total_leads, automatic) ==
    Append(batches, [total_leads |-> total_leads, processed_count |-> 0,
                     status |-> "running", automatic |-> automatic,
                     cancelled |-> FALSE])

update_progress(batches, batch_id, processed) ==
    [batches EXCEPT ![batch_id].processed_count = processed]

mark_complete(batches, batch_id, success) ==
    [batches EXCEPT ![batch_id].status = IF success THEN "completed" ELSE "failed"]

cancel_batch(batches, batch_id) ==
    [batches EXCEPT ![batch_id].status = "cancelled", ![batch_id].cancelled = TRUE]

(* A batch run, as the specification describes its driver: an automatic   *)
(* run first asks can_send_today, a manual one does not; the run creates   *)
(* its batch, reports progress lead by lead and marks the batch complete.  *)
RunCheck(c, automatic) ==
    /\ runs[c].pc = "idle"
    /\ automatic => can_send_today(scraped_data, now, 0)
    /\ runs' = [runs EXCEPT ![c] = [NoRun EXCEPT !.pc = "allowed", !.automatic = automatic]]
    /\ UNCHANGED <<now, scraped_data, failed_emails, api, dlq, fu, dlq2, queue, queue2,
                   claimers, probe, emails_sent, generated, sweep, email_batches,
                   rate_limiter>>

RunCreate(c) ==
    /\ runs[c].pc = "allowed"
    /\ Len(email_batches) < MaxBatches
    /\ email_batches' = create_batch(email_batches, Len(scraped_data), runs[c].automatic)
    /\ runs' = [runs EXCEPT ![c].pc = "running", ![c].batch = Len(email_batches) + 1]
    /\ UNCHANGED <<now, scraped_data, failed_emails, api, dlq, fu, dlq2, queue, queue2,
                   claimers, probe, emails_sent, generated, sweep,
                   rate_limiter>>

RunProgress(c) ==
    /\ runs[c].pc = "running"
    /\ LET row == email_batches[runs[c].batch]
       IN  /\ row.processed_count < row.total_leads
           /\ email_batches' = update_progress(email_batches, runs[c].batch,
                                               row.processed_count + 1)
    /\ UNCHANGED <<now, scraped_data, failed_emails, api, dlq, fu, dlq2, queue, queue2,
                   claimers, probe, emails_sent, generated, sweep, runs,
                   rate_limiter>>

RunComplete(c, success) ==
    /\ runs[c].pc = "running"
    /\ email_batches' = mark_complete(email_batches, runs[c].batch, success)
    /\ runs' = [runs EXCEPT ![c] = NoRun]
    /\ UNCHANGED <<now, scraped_data, failed_emails, api, dlq, fu, dlq2, queue, queue2,
                   claimers, probe, emails_sent, generated, sweep,
                   rate_limiter>>

(* A request to cancel a batch that is running; cancel_batch itself does   *)
(* not look at the row's status.                                           *)
CancelBatch(batch_id) ==
    /\ batch_id \in DOMAIN email_batches
    /\ email_batches[batch_id].status = "running"
    /\ email_batches' = cancel_batch(email_batches, batch_id)
    /\ UNCHANGED <<now, scraped_data, failed_emails, api, dlq, fu, dlq2, queue, queue2,
                   claimers, probe, emails_sent, generated, sweep, runs,
                   rate_limiter>>

(* --------------------------- core/rate_limiter -------------------------- *)
(* One API of the limiter, with the clock of time.time() counted in ticks. *)
(* The figures keep the proportions of the "openai" entry (20 s between    *)
(* requests, 3 requests in 60 s) at ten seconds a tick; the 0.1 s added to *)
(* the sleep for the window is one tick.  A coroutine inside acquire is    *)
(* idle, asleep for the minimum delay ("delay") or asleep for the window   *)
(* ("window"); granted is the history of the times recorded by acquire.    *)
InWindow(requests, current_time) ==
    SelectSeq(requests, LAMBDA req_time : current_time - req_time < time_window)

(* The while loop of acquire up to its next sleep or its end. *)
RECURSIVE WindowLoop(_, _)
WindowLoop(requests, current_time) ==
    IF Len(requests) >= max_requests
    THEN LET wait_time == time_window - (current_time - requests[1])
         IN  IF wait_time > 0
             THEN [sleep |-> TRUE, wake |-> current_time + wait_time + SleepBuffer,
                   requests |-> requests]
             ELSE WindowLoop(InWindow(requests, current_time), current_time)
    ELSE [sleep |-> FALSE, wake |-> 0, requests |-> requests]

(* From the while loop to the return: sleep for the window, or record the  *)
(* request and return.                                                     *)
AcquireProceed(c, requests, current_time) ==
    LET loop == WindowLoop(requests, current_time)
    IN  rate_limiter' =
            IF loop.sleep
            THEN [rate_limiter EXCEPT !.requests = loop.requests,
                                      !.co[c] = [pc |-> "window", wake |-> loop.wake]]
            ELSE [rate_limiter EXCEPT !.requests = Append(loop.requests, current_time),
                                      !.last_request = current_time,
                                      !.granted = Append(@, current_time),
                                      !.co[c] = [pc |-> "idle", wake |-> 0]]

LimiterFrame ==
    UNCHANGED <<now, scraped_data, failed_emails, api, dlq, fu, dlq2, queue, queue2,
                claimers, probe, emails_sent, generated, sweep, email_batches, runs>>

AcquireStart(c) ==
    /\ rate_limiter.co[c].pc = "idle"
    /\ Len(rate_limiter.granted) < MaxGrants
    /\ LET current_time == rate_limiter.clock
           requests == InWindow(rate_limiter.requests, current_time)
       IN  IF /\ rate_limiter.last_request # NULL
              /\ current_time - rate_limiter.last_request < min_delay
           THEN rate_limiter' =
                    [rate_limiter EXCEPT
                        !.requests = requests,
                        !.co[c] = [pc |-> "delay",
                                   wake |-> current_time
                                            + (min_delay
                                               - (current_time - rate_limiter.last_request))]]
           ELSE AcquireProceed(c, requests, current_time)
    /\ LimiterFrame

AcquireAfterDelay(c) ==
    /\ rate_limiter.co[c].pc = "delay"
    /\ rate_limiter.clock >= rate_limiter.co[c].wake
    /\ AcquireProceed(c, rate_limiter.requests, rate_limiter.clock)
    /\ LimiterFrame

AcquireAfterWindow(c) ==
    /\ rate_limiter.co[c].pc = "window"
    /\ rate_limiter.clock >= rate_limiter.co[c].wake
    /\ AcquireProceed(c, InWindow(rate_limiter.requests, rate_limiter.clock),
                      rate_limiter.clock)
    /\ LimiterFrame

CleanupAll ==
    /\ rate_limiter' = [rate_limiter EXCEPT
                           !.requests = InWindow(@, rate_limiter.clock)]
    /\ LimiterFrame

LimiterTick ==
    /\ rate_limiter.clock < MaxClock
    /\ rate_limiter' = [rate_limiter EXCEPT !.clock = @ + 1]
    /\ LimiterFrame

(* ------------------------------ behaviours ----------------------------- *)
Next ==
    \/ TickHour
    \/ TickDays
    \/ \E l \in Leads, email_type \in EmailTypes : ApiSendCall(l, email_type)
    \/ \E resp \in Responses : ApiSendReturn(resp)
    \/ \E l \in Leads, analysis_ok \in BOOLEAN : AnalyzeReply(l, analysis_ok)
    \/ DlqStart
    \/ DlqStep
    \/ \E resp \in Responses : DlqReturn(resp)
    \/ FuStart
    \/ \E gen_ok \in BOOLEAN : FuStep(gen_ok)
    \/ \E resp \in Responses : FuReturn(resp)

Spec == Init /\ [][Next]_vars

(* Direct send requests and reply detection. *)
NextSend ==
    \/ \E l \in Leads, email_type \in EmailTypes : ApiSendCall(l, email_type)
    \/ \E resp \in Responses : ApiSendReturn(resp)
    \/ \E l \in Leads, analysis_ok \in BOOLEAN : AnalyzeReply(l, analysis_ok)

SpecSend == Init /\ [][NextSend]_vars

(* Direct send requests and the hourly retry sweep. *)
NextDlq ==
    \/ TickHour
    \/ \E l \in Leads : ApiSendCall(l, "initial")
    \/ \E resp \in Responses : ApiSendReturn(resp)
    \/ DlqStart
    \/ DlqStep
    \/ \E resp \in Responses : DlqReturn(resp)

SpecDlq == Init /\ [][NextDlq]_vars

(* One initial send request per lead, then only the hourly retry sweep. *)
FirstSend(l) ==
    /\ scraped_data[l].mail_status = "new"
    /\ failed_emails = <<>>
    /\ ApiSendCall(l, "initial")

NextDlqOnce ==
    \/ TickHour
    \/ \E l \in Leads : FirstSend(l)
    \/ \E resp \in Responses : ApiSendReturn(resp)
    \/ DlqStart
    \/ DlqStep
    \/ \E resp \in Responses : DlqReturn(resp)

SpecDlqOnce == Init /\ [][NextDlqOnce]_vars

(* One initial send request per lead and two concurrent retry sweeps. *)
NextDlqTwo ==
    \/ TickHour
    \/ \E l \in Leads : FirstSend(l)
    \/ \E resp \in Responses : ApiSendReturn(resp)
    \/ DlqStart
    \/ DlqStep
    \/ \E resp \in Responses : DlqReturn(resp)
    \/ Dlq2Start
    \/ Dlq2Step
    \/ \E resp \in Responses : Dlq2Return(resp)

SpecDlqTwo == Init /\ [][NextDlqTwo]_vars

(* Initial sends, reply detection and the follow-up sweep. *)
NextFollowup ==
    \/ TickDays
    \/ \E l \in Leads : ApiSendCall(l, "initial")
    \/ \E resp \in Responses : ApiSendReturn(resp)
    \/ \E l \in Leads, analysis_ok \in BOOLEAN : AnalyzeReply(l, analysis_ok)
    \/ FuStart
    \/ \E gen_ok \in BOOLEAN : FuStep(gen_ok)
    \/ \E resp \in Responses : FuReturn(resp)

SpecFollowup == Init /\ [][NextFollowup]_vars

(* ------------------------------ properties ----------------------------- *)
SentOrLater == {"email_sent", "followup_5day_sent", "followup_10day_sent", "reply_received"}

FollowupTypes == {"followup_5day", "followup_10day"}

(* Process p, whose next value is q, hands a request for lead l to the relay. *)
Sends(p, q, l) == p.pc # "awaiting" /\ q.pc = "awaiting" /\ q.req.lead = l

(* Process p, whose next value is q, gets the relay's answer for lead l. *)
Returns(p, q, l) == p.pc = "awaiting" /\ q.pc # "awaiting" /\ p.req.lead = l

HasFailedEntry(l) ==
    \E i \in 1..Len(failed_emails) :
        failed_emails[i].lead_id = l /\ failed_emails[i].status = "failed"

Rank(status) ==
    IF status = "new" THEN 0
    ELSE IF status = "scheduled" THEN 1
    ELSE IF status = "sending" THEN 2
    ELSE IF status \in {"email_sent", "failed"} THEN 3
    ELSE IF status = "followup_5day_sent" THEN 4
    ELSE IF status = "followup_10day_sent" THEN 5
    ELSE 6

(* C1: a lead enters email_sent at most once: no initial-send request is   *)
(* handed to the relay for a lead that is already email_sent or later, and *)
(* a lead past email_sent never goes back to it.                           *)
C1_SingleInitialSend ==
    [][\A l \in Leads :
         /\ (Sends(api, api', l) /\ api'.req.email_type = "initial")
                => scraped_data[l].mail_status \notin SentOrLater
         /\ scraped_data[l].mail_status \in SentOrLater \ {"email_sent"}
                => scraped_data'[l].mail_status # "email_sent"]_vars

(* C2: once an entry of a lead that never had a successful send is         *)
(* permanently failed (three failed deliveries), no later retry sweep      *)
(* makes a delivery attempt for that lead.                                 *)
C2_NoRetryAfterPermanentFailure ==
    [][\A l \in Leads :
         (HasFailedEntry(l) /\ scraped_data[l].sent_at = NULL)
             => ~Sends(dlq, dlq', l)]_vars

(* C3: after a reply was recorded for a lead with a follow-up pending, a   *)
(* follow-up sweep that starts later selects no item for the lead (and so  *)
(* sends nothing for it: a sweep sends only for the items it selected).    *)
C3_NoFollowupAfterReply ==
    [][\A l \in Leads :
         (scraped_data[l].replied_pending /\ fu.pc = "idle" /\ fu'.pc # "idle")
             => \A i \in 1..Len(fu'.todo) : fu'.todo[i].lead # l]_vars

(* C4: recording a reply cancels the outstanding follow-ups: each marker   *)
(* of a scheduled, unsent follow-up holds 'cancelled' once the reply is    *)
(* recorded, and never becomes 'true' afterwards.                          *)
C4_ReplyCancelsFollowups ==
    [][\A l \in Leads :
         LET rec == scraped_data[l]
             rec2 == scraped_data'[l]
         IN  /\ (rec.mail_status # "reply_received" /\ rec2.mail_status = "reply_received")
                    => /\ Outstanding(rec.followup_5_scheduled_date, rec.followup_5_sent)
                            => rec2.followup_5_sent = "cancelled"
                       /\ Outstanding(rec.followup_10_scheduled_date, rec.followup_10_sent)
                            => rec2.followup_10_sent = "cancelled"
             /\ rec.replied_pending
                    => /\ rec2.followup_5_sent = "true" => rec.followup_5_sent = "true"
                       /\ rec2.followup_10_sent = "true" => rec.followup_10_sent = "true"]_vars

(* C5: reply_received is terminal: no step of any process, in any          *)
(* interleaving, moves a lead out of reply_received.                       *)
C5_ReplyReceivedTerminal ==
    [][\A l \in Leads :
         scraped_data[l].mail_status = "reply_received"
             => scraped_data'[l].mail_status = "reply_received"]_vars

(* C6: mail_status only moves forward along new, scheduled, sending,       *)
(* email_sent or failed, followup_5day_sent, followup_10day_sent, and      *)
(* reply_received is entered only from a sent state.                       *)
C6_LifecycleOrder ==
    [][\A l \in Leads :
         /\ Rank(scraped_data'[l].mail_status) >= Rank(scraped_data[l].mail_status)
         /\ (scraped_data'[l].mail_status = "reply_received")
                => scraped_data[l].mail_status \in SentOrLater]_vars

(* C7: no request is handed to the relay for a lead whose local time is    *)
(* outside business hours (Monday to Saturday, 9 to 18), on any path.      *)
C7_NoSendOutsideBusinessHours ==
    [][\A l \in Leads :
         (Sends(api, api', l) \/ Sends(dlq, dlq', l) \/ Sends(fu, fu', l))
             => check_lead_business_hours(scraped_data[l].company_country, now, 9, 18)]_vars

(* C8: once the initial send stored thread T for a lead, every later       *)
(* follow-up delivery (direct send, follow-up sweep, retry of a failed     *)
(* follow-up) passes T to the relay.                                       *)
C8_FollowupsCarryInitialThread ==
    [][\A l \in Leads :
         scraped_data[l].initial_thread_id # NULL
             => /\ (Sends(api, api', l) /\ api'.req.email_type \in FollowupTypes)
                    => api'.req.thread_ref = scraped_data[l].initial_thread_id
                /\ (Sends(fu, fu', l) /\ fu'.req.email_type \in FollowupTypes)
                    => fu'.req.thread_ref = scraped_data[l].initial_thread_id
                /\ (Sends(dlq, dlq', l)
                      /\ failed_emails[Head(dlq.todo).id].content \in FollowupTypes)
                    => dlq'.req.thread_ref = scraped_data[l].initial_thread_id]_vars

(* C9: a follow-up send leaves the stored gmail_thread_id of the lead as   *)
(* it was, whatever the relay answers.                                     *)
C9_FollowupKeepsThreadId ==
    [][\A l \in Leads :
         (/\ scraped_data[l].gmail_thread_id # NULL
          /\ \/ Returns(api, api', l) /\ api.req.email_type \in FollowupTypes
             \/ Returns(fu, fu', l) /\ fu.req.email_type \in FollowupTypes)
             => scraped_data'[l].gmail_thread_id = scraped_data[l].gmail_thread_id]_vars

(* C10: every dead letter queue entry has attempt_count in 1..max_attempts *)
(* and at most max_attempts deliveries were made for it.                   *)
C10_AttemptsBounded ==
    \A i \in 1..Len(failed_emails) :
        /\ failed_emails[i].attempt_count >= 1
        /\ failed_emails[i].attempt_count <= max_attempts
        /\ failed_emails[i].deliveries <= max_attempts

C10_Witness ==
    \E i \in 1..Len(failed_emails) :
        /\ failed_emails[i].status = "failed"
        /\ failed_emails[i].deliveries = max_attempts

(* C11: once a dead letter queue entry is resolved or failed, no later     *)
(* operation changes its status, attempt_count or next_retry_at, also      *)
(* when two retry sweeps run concurrently and both read it while pending.  *)
C11_ClosedEntryImmutable ==
    [][\A i \in 1..Len(failed_emails) :
         failed_emails[i].status \in {"resolved", "failed"}
             => /\ failed_emails'[i].status = failed_emails[i].status
                /\ failed_emails'[i].attempt_count = failed_emails[i].attempt_count
                /\ failed_emails'[i].next_retry_at = failed_emails[i].next_retry_at]_vars

(* Batch queueing, the queue pass and the hourly retry sweep, one lead. *)
NextQueue ==
    \/ TickHour
    \/ \E l \in Leads : FirstSend(l)
    \/ \E resp \in Responses : ApiSendReturn(resp)
    \/ \E l \in Leads : BatchQueue(l)
    \/ QueueStart
    \/ \E gen_ok \in BOOLEAN : QueueSend(gen_ok)
    \/ \E resp \in Responses : QueueReturn(resp)
    \/ DlqStart
    \/ DlqStep
    \/ \E resp \in Responses : DlqReturn(resp)

SpecQueue == Init /\ [][NextQueue]_vars

(* Batch queueing and two concurrent queue passes, two leads. *)
NextQueueTwo ==
    \/ TickHour
    \/ \E l \in QueueLeads : BatchQueue(l)
    \/ QueueStart
    \/ \E gen_ok \in BOOLEAN : QueueSend(gen_ok)
    \/ \E resp \in Responses : QueueReturn(resp)
    \/ Queue2Start
    \/ \E gen_ok \in BOOLEAN : Queue2Send(gen_ok)
    \/ \E resp \in Responses : Queue2Return(resp)

SpecQueueTwo == InitTwoLeads /\ [][NextQueueTwo]_vars

(* C12: when the third delivery of a failed email (two failures, then a    *)
(* retry by the sweep) succeeds, the entry is resolved and the lead's      *)
(* mail_status is email_sent; the only other outcome of that retry is the  *)
(* failed one, which leaves the lead as it was.                            *)
C12_ThirdDeliveryResolves ==
    [][\A l \in Leads :
         (Returns(dlq, dlq', l) /\ failed_emails[Head(dlq.todo).id].deliveries = 3)
             => LET i == Head(dlq.todo).id
                IN  \/ /\ failed_emails'[i].status = "resolved"
                       /\ scraped_data'[l].mail_status = "email_sent"
                    \/ /\ failed_emails'[i].status = "failed"
                       /\ scraped_data'[l] = scraped_data[l]]_vars

C12_Witness ==
    \E i \in 1..Len(failed_emails) :
        /\ failed_emails[i].status = "resolved"
        /\ failed_emails[i].deliveries = 3
        /\ scraped_data[failed_emails[i].lead_id].mail_status = "email_sent"
        /\ scraped_data[failed_emails[i].lead_id].scheduled_time # NULL

(* C13: every successful initial send, immediate or from the queue, leaves *)
(* the lead email_sent with both follow-up dates set and both sent markers *)
(* 'false'.                                                                *)
C13_InitialSendSchedulesFollowups ==
    [][\A l \in Leads :
         (/\ \/ Returns(api, api', l) /\ api.req.email_type = "initial"
             \/ Returns(queue, queue', l)
             \/ Returns(queue2, queue2', l)
          /\ scraped_data'[l].mail_status = "email_sent")
             => /\ scraped_data'[l].followup_5_scheduled_date # NULL
                /\ scraped_data'[l].followup_10_scheduled_date # NULL
                /\ scraped_data'[l].followup_5_sent = "false"
                /\ scraped_data'[l].followup_10_sent = "false"]_vars

(* C18: two concurrent queue passes never both deliver the scheduled email *)
(* of a lead: a queued email is handed to the relay at most once.          *)
C18_QueuedEmailSentOnce ==
    \A l \in DOMAIN scraped_data : scraped_data[l].queue_sends <= 1

(* C14: the 10-day follow-up comes only after the 5-day one: whenever a   *)
(* lead's mail_status becomes followup_10day_sent, a 5-day follow-up has   *)
(* been delivered to that lead before.                                     *)
C14_TenDayOnlyAfterFiveDay ==
    [][\A l \in DOMAIN scraped_data :
          (/\ scraped_data[l].mail_status # "followup_10day_sent"
           /\ scraped_data'[l].mail_status = "followup_10day_sent")
          => scraped_data[l].followup_5day_delivered]_vars

(* C15: a due follow-up whose lead is outside business hours is skipped   *)
(* without a write: the sweep counts it as skipped_timezone, hands nothing *)
(* to the relay, leaves the lead's record as it was, and an item that was  *)
(* due stays due for the next sweep.                                       *)
C15_OutsideHoursSkipWritesNothing ==
    [][\A l \in Leads :
          (/\ fu.pc = "running"
           /\ fu' # fu
           /\ Head(fu.todo).lead = l
           /\ Head(fu.todo).mail_status # "reply_received"
           /\ ~check_lead_business_hours(scraped_data[l].company_country, now, 9, 18))
          => /\ scraped_data'[l] = scraped_data[l]
             /\ fu'.pc # "awaiting"
             /\ fu'.skipped_timezone = fu.skipped_timezone + 1
             /\ \A i \in 1..Len(AllDueLeads(scraped_data, now)) :
                   AllDueLeads(scraped_data, now)[i].lead = l
                   => \E j \in 1..Len(AllDueLeads(scraped_data', now')) :
                         AllDueLeads(scraped_data', now')[j] = AllDueLeads(scraped_data, now)[i]]_vars

(* A sweep has just skipped the 5-day follow-up of a lead that is outside  *)
(* business hours, and the follow-up is still due.                         *)
C15_Witness ==
    /\ fu.pc = "idle"
    /\ fu.skipped_timezone = 1
    /\ \E l \in Leads :
          /\ Due5(scraped_data[l], DateOf(now))
          /\ ~check_lead_business_hours(scraped_data[l].company_country, now, 9, 18)

(* What the running service does by itself: the scheduler's jobs (queue   *)
(* pass and DLQ sweep; _setup_jobs registers no follow-up job and main.py  *)
(* leaves the follow-ups router out), with initial sends requested through *)
(* the API.  The jobs are interval-triggered, hence weakly fair; the days  *)
(* pass; the hour within the day is left free, and moves during the first *)
(* day only.                                                               *)
TickHourFirstDay == now < StartInstant + HoursPerDay /\ TickHour

NextScheduler ==
    \/ TickHourFirstDay
    \/ TickDays
    \/ \E l \in Leads : FirstSend(l)
    \/ \E resp \in Responses : ApiSendReturn(resp)
    \/ \E l \in Leads : BatchQueue(l)
    \/ QueueStart
    \/ \E gen_ok \in BOOLEAN : QueueSend(gen_ok)
    \/ \E resp \in Responses : QueueReturn(resp)
    \/ DlqStart
    \/ DlqStep
    \/ \E resp \in Responses : DlqReturn(resp)

SpecScheduler ==
    /\ Init
    /\ [][NextScheduler]_vars
    /\ WF_vars(TickDays)
    /\ WF_vars(\E resp \in Responses : ApiSendReturn(resp))
    /\ WF_vars(QueueStart \/ (\E gen_ok \in BOOLEAN : QueueSend(gen_ok))
                         \/ (\E resp \in Responses : QueueReturn(resp)))
    /\ WF_vars(DlqStart \/ DlqStep \/ (\E resp \in Responses : DlqReturn(resp)))

(* C16: a due follow-up is never dropped: for a lead that never replies    *)
(* and is inside business hours again and again, a 5-day follow-up that is *)
(* due is eventually delivered by the jobs the service runs.               *)
C16_DueFollowupEventuallySent ==
    \A l \in Leads :
        ([]<>check_lead_business_hours(scraped_data[l].company_country, now, 9, 18))
        => (Due5(scraped_data[l], DateOf(now)) ~> scraped_data[l].followup_5day_delivered)

(* Two callers of get_next_batch_leads, with direct initial sends. *)
NextBatch ==
    \/ \E c \in Callers : BatchSelect(c)
    \/ \E c \in Callers : BatchLock(c)
    \/ \E c \in Callers : BatchDone(c)
    \/ \E l \in QueueLeads : FirstSend(l)
    \/ \E resp \in Responses : ApiSendReturn(resp)

SpecBatch == InitBatch /\ [][NextBatch]_vars

(* C17: get_next_batch_leads claims leads atomically: no lead is in the    *)
(* lists that two callers hold from their calls.                          *)
C17_NoLeadClaimedTwice ==
    \A c1, c2 \in Callers :
        (/\ c1 # c2
         /\ claimers[c1].pc = "returned"
         /\ claimers[c2].pc = "returned")
        => claimers[c1].leads \cap claimers[c2].leads = {}

(* C19: can_send_today answers false exactly when some lead has a sent_at *)
(* on the current calendar day, the day being the one date.today() gives   *)
(* on the host.                                                            *)
C19_CanSendIffNothingSentToday ==
    \A host_offset \in HostOffsets :
        can_send_today(scraped_data, now, host_offset)
        = ~\E l \in DOMAIN scraped_data :
               /\ scraped_data[l].sent_at # NULL
               /\ DateOf(scraped_data[l].sent_at + host_offset) = DateOf(now + host_offset)

(* The business-hours check called at any minute of a week. *)
NextHours ==
    /\ probe.op = NoProbe.op
    /\ \/ \E timezone \in Timezones, minute \in WeekMinutes,
             start_hour \in StartHours, end_hour \in EndHours :
               CallIsBusinessHours(timezone, minute, start_hour, end_hour)
       \/ \E country \in {"", "Japan", "Colombia"}, minute \in WeekMinutes,
             start_hour \in StartHours, end_hour \in EndHours :
               CallCheckLeadBusinessHours(country, minute, start_hour, end_hour)

SpecHours == Init /\ [][NextHours]_vars

(* The local weekday and hour of the instant a check was called at. *)
ProbeLocalMinute == probe.args[2] + UtcOffset(probe.args[1]) * MinutesPerHour

ProbeWeekday == (ProbeLocalMinute \div (HoursPerDay * MinutesPerHour)) % 7

ProbeHour == (ProbeLocalMinute \div MinutesPerHour) % HoursPerDay

ProbeMinute == ProbeLocalMinute % MinutesPerHour

HoursProbe == probe.op \in {"is_business_hours", "check_lead_business_hours"}

(* C22: with the window 9-18 a send is allowed exactly from Monday to      *)
(* Saturday at a local hour h with 9 <= h < 18: not on Sunday 10:00, not   *)
(* at 18:00, not at 08:59, but at 09:00.                                   *)
C22_Window9To18 ==
    (HoursProbe /\ probe.args[3] = 9 /\ probe.args[4] = 18)
    => /\ probe.result = (ProbeWeekday < 6 /\ 9 <= ProbeHour /\ ProbeHour < 18)
       /\ (ProbeWeekday = 6 /\ ProbeHour = 10) => ~probe.result
       /\ (ProbeWeekday = 1 /\ ProbeHour = 9 /\ ProbeMinute = 0) => probe.result
       /\ (ProbeWeekday = 1 /\ ProbeHour = 18 /\ ProbeMinute = 0) => ~probe.result
       /\ (ProbeWeekday = 1 /\ ProbeHour = 8 /\ ProbeMinute = 59) => ~probe.result

(* Tuesday 18:00 in Tokyo was checked against the window 9-18 and refused. *)
C22_Witness ==
    /\ probe.op = "is_business_hours"
    /\ probe.args[1] = "Asia/Tokyo"
    /\ probe.args[3] = 9 /\ probe.args[4] = 18
    /\ ProbeWeekday = 1 /\ ProbeHour = 18 /\ ProbeMinute = 0
    /\ ~probe.result

(* C23: the check honours the window it is given: from Monday to Saturday  *)
(* a local hour h is allowed exactly when start_hour <= h < end_hour.      *)
C23_WindowHonoured ==
    (HoursProbe /\ ProbeWeekday < 6)
    => probe.result = (probe.args[3] <= ProbeHour /\ ProbeHour < probe.args[4])

(* C24: every lead's mail_status is one of the eight lifecycle values.    *)
C24_MailStatusInLifecycle ==
    \A l \in DOMAIN scraped_data :
        scraped_data[l].mail_status \in
            {"new", "scheduled", "sending", "email_sent", "followup_5day_sent",
             "followup_10day_sent", "reply_received", "failed"}

(* C30: whenever follow-ups are scheduled for a lead, the 5-day date is   *)
(* the date of the send plus 5 days and the 10-day date is the date of the *)
(* send plus 10 days: 5 days apart, both after the send date.              *)
C30_FollowupDatesFromSendDate ==
    [][\A l \in DOMAIN scraped_data :
          (\/ scraped_data'[l].followup_5_scheduled_date
                 # scraped_data[l].followup_5_scheduled_date
           \/ scraped_data'[l].followup_10_scheduled_date
                 # scraped_data[l].followup_10_scheduled_date)
          => LET sent_date == DateOf(scraped_data'[l].sent_at)
                 date5 == scraped_data'[l].followup_5_scheduled_date
                 date10 == scraped_data'[l].followup_10_scheduled_date
             IN  /\ scraped_data'[l].sent_at # NULL
                 /\ date5 = sent_date + 5
                 /\ date10 = sent_date + 10
                 /\ date10 = date5 + 5
                 /\ date5 > sent_date]_vars

(* An initial email sent on a later day than the first, with its          *)
(* follow-ups scheduled 5 and 10 days after that day.                      *)
C30_Witness ==
    \E l \in DOMAIN scraped_data :
        /\ scraped_data[l].mail_status = "email_sent"
        /\ DateOf(scraped_data[l].sent_at) = 5
        /\ scraped_data[l].followup_5_scheduled_date = 10
        /\ scraped_data[l].followup_10_scheduled_date = 15

(* C26: retry delays follow the schedule 1h, 2h, 4h.  A new entry is      *)
(* pending with attempt_count 1 and is due one hour after its creation; a  *)
(* failed retry that leaves attempt_count = k schedules the next retry     *)
(* retry_delays[min(k-1, 2)] after the failure: an index inside the        *)
(* schedule and a delay not shorter than the one before it.                *)
C26_BackoffSchedule ==
    [][/\ Len(failed_emails') > Len(failed_emails)
          => LET created == failed_emails'[Len(failed_emails')]
             IN  /\ created.status = "pending"
                 /\ created.attempt_count = 1
                 /\ created.next_retry_at * 3600 = now' * 3600 + retry_delays[1]
       /\ \A i \in 1..Len(failed_emails) :
             (/\ failed_emails'[i].attempt_count # failed_emails[i].attempt_count
              /\ failed_emails'[i].status = "pending")
             => LET k == failed_emails'[i].attempt_count
                    index == Min(k - 1, 2)
                    earlier == Min(k - 2, 2)
                IN  /\ k = failed_emails[i].attempt_count + 1
                    /\ index + 1 \in DOMAIN retry_delays
                    /\ failed_emails'[i].next_retry_at * 3600
                         = now' * 3600 + retry_delays[index + 1]
                    /\ retry_delays[index + 1] >= retry_delays[earlier + 1]]_vars

(* A retry has just failed and left the entry pending at attempt 2, due    *)
(* two hours from now.                                                     *)
C26_Witness ==
    \E i \in 1..Len(failed_emails) :
        /\ failed_emails[i].status = "pending"
        /\ failed_emails[i].attempt_count = 2
        /\ failed_emails[i].next_retry_at = now + 2

(* Every sender of the service: direct initial sends, the batch that      *)
(* queues, the queue pass and the follow-up sweep, over hours and days.    *)
NextSenders ==
    \/ TickHourFirstDay
    \/ TickDays
    \/ \E l \in Leads : FirstSend(l)
    \/ \E resp \in Responses : ApiSendReturn(resp)
    \/ \E l \in Leads : BatchQueue(l)
    \/ QueueStart
    \/ \E gen_ok \in BOOLEAN : QueueSend(gen_ok)
    \/ \E resp \in Responses : QueueReturn(resp)
    \/ FuStart
    \/ \E gen_ok \in BOOLEAN : FuStep(gen_ok)
    \/ \E resp \in Responses : FuReturn(resp)

SpecSenders == Init /\ [][NextSenders]_vars

SentStatuses == {"email_sent", "followup_5day_sent", "followup_10day_sent"}

(* This step writes a sent status or a sent_at to lead l. *)
WritesSent(l) ==
    \/ /\ scraped_data'[l].mail_status \in SentStatuses
       /\ scraped_data'[l].mail_status # scraped_data[l].mail_status
    \/ scraped_data'[l].sent_at # scraped_data[l].sent_at

(* This step is the relay's answer to some sender's request for lead l. *)
DeliveryReturns(l) ==
    \/ Returns(api, api', l)
    \/ Returns(dlq, dlq', l)
    \/ Returns(fu, fu', l)
    \/ Returns(queue, queue', l)
    \/ Returns(queue2, queue2', l)

(* C28: a sent status and sent_at are written to a lead only in the step   *)
(* in which the relay answered a delivery for that lead, and only when the *)
(* answer was success (a failed delivery leaves a new DLQ entry and no     *)
(* sent status).                                                           *)
C28_SentOnlyAfterSuccess ==
    [][\A l \in DOMAIN scraped_data :
          /\ WritesSent(l) => DeliveryReturns(l)
          /\ (DeliveryReturns(l) /\ Len(failed_emails') > Len(failed_emails))
             => ~WritesSent(l)]_vars

(* A queued email and a follow-up have both been delivered to a lead. *)
C28_Witness ==
    \E l \in DOMAIN scraped_data :
        /\ scraped_data[l].mail_status = "followup_5day_sent"
        /\ scraped_data[l].queue_sends = 1
        /\ scraped_data[l].sent_at = now

(* send_email_via_webhook given any answer of the relay. *)
NextWebhook == \E answer \in RelayAnswers : CallSendEmailViaWebhook(answer)

SpecWebhook == Init /\ [][NextWebhook]_vars

(* C29: send_email_via_webhook reports success only for a response that   *)
(* carries a message id; a response without one, a response that says      *)
(* success = false, a timeout, an HTTP error and any other exception all    *)
(* give success = false.                                                    *)
C29_SuccessNeedsMessageId ==
    probe.op = "send_email_via_webhook"
    => LET answer == probe.args[1]
       IN  /\ probe.result.success
              => (answer.transport = "response" /\ answer.body.message_id # NULL)
           /\ answer.transport # "response" => ~probe.result.success
           /\ answer.body.message_id = NULL => ~probe.result.success
           /\ answer.body.success = "false" => ~probe.result.success

(* generate_email_for_lead called up to MaxCalls times for a lead whose    *)
(* initial email may be delivered in between.                              *)
NextPersonalization ==
    \/ \E l \in Leads, email_type \in {"initial", "followup_5day"},
          force_regenerate \in BOOLEAN, company_website_content \in BOOLEAN,
          ai \in OpenAiAnswers :
            CallGenerateEmailForLead(l, email_type, force_regenerate,
                                     company_website_content, ai)
    \/ \E l \in Leads : FirstSend(l)
    \/ \E resp \in Responses : ApiSendReturn(resp)

SpecPersonalization == InitEmails /\ [][NextPersonalization]_vars

(* C25: two calls of generate_email_for_lead for the same lead and email   *)
(* type, both with force_regenerate = false and with the same website      *)
(* content available, return the same subject and the same body, also      *)
(* when the lead's email was delivered between the two calls.              *)
C25_GenerateTwiceSameEmail ==
    \A i, j \in DOMAIN generated :
        (/\ i < j
         /\ generated[i].lead_id = generated[j].lead_id
         /\ generated[i].email_type = generated[j].email_type
         /\ ~generated[i].force_regenerate
         /\ ~generated[j].force_regenerate
         /\ generated[i].company_website_content = generated[j].company_website_content)
        => /\ generated[i].result.subject = generated[j].result.subject
           /\ generated[i].result.body = generated[j].result.body

(* One initial send request per lead, then the retry sweep whose loop body *)
(* may raise.  A failed retry leaves a second entry, so later sweeps find  *)
(* several rows.                                                           *)
NextDlqFaults ==
    \/ TickHourFirstDay
    \/ \E l \in Leads : FirstSend(l)
    \/ \E resp \in Responses : ApiSendReturn(resp)
    \/ SweepStart
    \/ \E after_update \in BOOLEAN : SweepRaise(after_update)
    \/ SweepStep
    \/ \E resp \in Responses : SweepReturn(resp)
    \/ SweepDone

SpecDlqFaults == Init /\ [][NextDlqFaults]_vars

(* C27: when retry_failed_emails returns, it returns success, the loop     *)
(* body was entered for every row the query found, also after the body     *)
(* raised for some row, and the counts add up: every found row is counted  *)
(* as succeeded or failed, and processed counts the rows whose delivery    *)
(* call returned.                                                          *)
C27_SweepSurvivesException ==
    sweep.pc = "returned"
    => /\ sweep.success
       /\ sweep.attempted = sweep.found
       /\ sweep.succeeded + sweep.failed = Cardinality(sweep.found)
       /\ sweep.processed = Cardinality(sweep.found \ sweep.raised)

(* A sweep over two rows has returned after the body raised for the first. *)
C27_Witness ==
    /\ sweep.pc = "returned"
    /\ Cardinality(sweep.found) >= 2
    /\ sweep.raised # {}
    /\ sweep.raised # sweep.found
    /\ sweep.processed >= 1

(* Hours pass, and the follow-up pass works through the leads that are    *)
(* due.                                                                    *)
NextFollowupPass ==
    \/ TickHour
    \/ FuStart
    \/ \E gen_ok \in BOOLEAN : FuStep(gen_ok)
    \/ \E resp \in Responses : FuReturn(resp)

SpecFollowupPass == InitFollowupPass /\ [][NextFollowupPass]_vars

(* C21: a follow-up pass that has ended has returned its counts, and every *)
(* due lead of its batch was processed: each one is counted as processed,  *)
(* failed or skipped, whatever happened to the leads before it.            *)
C21_PassNeverAborts ==
    (fu.pc = "idle" /\ fu.result # "none")
    => /\ fu.result = "counts"
       /\ fu.processed + fu.failed + fu.skipped_timezone + fu.skipped_replied = fu.total

(* Callers of get_next_batch_leads while the batch sender queues leads    *)
(* that are outside their business hours.                                  *)
NextBatchQueue ==
    \/ \E c \in Callers : BatchSelect(c)
    \/ \E c \in Callers : BatchLock(c)
    \/ \E c \in Callers : BatchDone(c)
    \/ \E l \in QueueLeads : BatchQueue(l)

SpecBatchQueue == InitBatch /\ [][NextBatchQueue]_vars

InProcessOrSent ==
    {"processing", "sending", "scheduled", "email_sent", "followup_5day_sent",
     "followup_10day_sent", "reply_received"}

(* C31: the leads a call of get_next_batch_leads selects are at most       *)
(* batch_size, each verified, and none of them is, when selected, already  *)
(* claimed (processing), already sent, replied, or in process (sending,    *)
(* scheduled).                                                             *)
C31_BatchOnlyFreshLeads ==
    [][\A c \in Callers :
          (claimers[c].pc = "idle" /\ claimers'[c].pc # "idle")
          => /\ Cardinality(claimers'[c].leads) <= batch_size
             /\ \A l \in claimers'[c].leads :
                   /\ scraped_data[l].is_verified
                   /\ scraped_data[l].mail_status \notin InProcessOrSent]_vars

(* Batch runs started by two callers, initial sends, and cancellation of  *)
(* running batches.                                                        *)
NextRuns ==
    \/ \E l \in Leads : FirstSend(l)
    \/ \E resp \in Responses : ApiSendReturn(resp)
    \/ \E c \in Callers, automatic \in BOOLEAN : RunCheck(c, automatic)
    \/ \E c \in Callers : RunCreate(c)
    \/ \E c \in Callers : RunProgress(c)
    \/ \E c \in Callers, success \in BOOLEAN : RunComplete(c, success)
    \/ \E batch_id \in 1..MaxBatches : CancelBatch(batch_id)

SpecRuns == Init /\ [][NextRuns]_vars

(* C32: at most one batch that draws from the daily automatic pool is in   *)
(* status running at any time.                                             *)
C32_OneAutomaticBatchRunning ==
    Cardinality({b \in DOMAIN email_batches :
                    email_batches[b].automatic /\ email_batches[b].status = "running"}) <= 1

(* C33: a batch for which cancel_batch was called stays cancelled, also    *)
(* when the run that is still finishing calls update_progress or           *)
(* mark_complete for it afterwards.                                        *)
C33_CancelledStaysCancelled ==
    \A b \in DOMAIN email_batches :
        email_batches[b].cancelled => email_batches[b].status = "cancelled"

NextUnusable ==
    \E lead \in PyLeads, company_website_content \in BOOLEAN, ai \in UnusableAnswers :
        CallGenerateUnusable(lead, company_website_content, ai)

SpecUnusable == Init /\ [][NextUnusable]_vars

(* C34: when the content generator fails or returns unusable output,       *)
(* generate_email_for_lead returns success with a subject and a body       *)
(* marked is_personalized = false, whatever lead fields among              *)
(* company_industry, founder_name, founder_email and company_name are      *)
(* missing or null; it never returns an error.                             *)
C34_FallbackAlwaysSucceeds ==
    probe.op = "generate_email_for_lead"
    => /\ probe.result.success
       /\ ~probe.result.is_personalized

(* Coroutines of one event loop calling acquire for the same API. *)
NextLimiter ==
    \/ \E c \in Callers : AcquireStart(c)
    \/ \E c \in Callers : AcquireAfterDelay(c)
    \/ \E c \in Callers : AcquireAfterWindow(c)
    \/ CleanupAll
    \/ LimiterTick

SpecLimiter == Init /\ [][NextLimiter]_vars

(* C36: any two requests that acquire grants for the same API are at      *)
(* least min_delay apart, also when several coroutines are inside acquire  *)
(* at the same time.                                                       *)
C36_GrantsSpaced ==
    \A i, j \in DOMAIN rate_limiter.granted :
        i < j => rate_limiter.granted[j] - rate_limiter.granted[i] >= min_delay

(* C39: a follow-up marker (followup_5_sent, followup_10_sent) that is    *)
(* 'true' or 'cancelled' is never 'false' again after any later operation, *)
(* a later successful initial send for the same lead included.             *)
C39_MarkersNeverReset ==
    [][\A l \in Leads :
          /\ scraped_data[l].followup_5_sent \in {"true", "cancelled"}
             => scraped_data'[l].followup_5_sent # "false"
          /\ scraped_data[l].followup_10_sent \in {"true", "cancelled"}
             => scraped_data'[l].followup_10_sent # "false"]_vars

(* The batch that queues and the queue pass, over the hours of a week,   *)
(* for a lead ahead of UTC or behind it.                                   *)
NextQueueZones ==
    \/ TickHour
    \/ TickDays
    \/ \E l \in Leads : BatchQueueSlow(l)
    \/ QueueStart
    \/ \E gen_ok \in BOOLEAN : QueueSend(gen_ok)
    \/ \E resp \in Responses : QueueReturn(resp)

SpecQueueZones == InitZones /\ [][NextQueueZones]_vars

(* The instant that queue_email_for_lead recorded, on the UTC clock. *)
ScheduledInstant(rec) == rec.scheduled_time - UtcOffset(rec.email_timezone)

(* C35: the queue pass never calls the relay for a scheduled lead before   *)
(* the instant recorded in scheduled_time, whether the lead's zone is ahead *)
(* of UTC or behind it.                                                    *)
C35_NeverBeforeScheduledInstant ==
    [][(queue.pc = "sleeping" /\ queue'.pc = "awaiting")
       => now >= ScheduledInstant(scraped_data[queue'.req.lead])]_vars

(* C38: when a retry sweep has returned, no entry that it marked          *)
(* 'retrying' still has that status: each has gone to resolved, failed or  *)
(* pending, also when the retry of the entry raised an exception.          *)
C38_NoEntryLeftRetrying ==
    sweep.pc = "returned"
    => \A id \in sweep.attempted : failed_emails[id].status # "retrying"

(* A lead whose initial email went out five days ago: follow-up sweeps and *)
(* DLQ retry sweeps over the hours of the day.                             *)
NextFollowupDlq ==
    \/ TickHour
    \/ FuStart
    \/ \E gen_ok \in BOOLEAN : FuStep(gen_ok)
    \/ \E resp \in Responses : FuReturn(resp)
    \/ DlqStart
    \/ DlqStep
    \/ \E resp \in Responses : DlqReturn(resp)

SpecFollowupDlq == InitFollowupDue /\ [][NextFollowupDlq]_vars

(* The follow-up sweep's delivery of a follow-up of the given type to lead *)
(* l succeeds in this step.                                                *)
SweepDelivers(l, email_type) ==
    /\ fu.pc = "awaiting"
    /\ fu.req.lead = l
    /\ fu.req.email_type = email_type
    /\ fu'.processed = fu.processed + 1

(* A DLQ retry of a failed follow-up of the given type to lead l succeeds  *)
(* in this step.                                                           *)
RetryDelivers(l, email_type) ==
    /\ dlq.pc = "awaiting"
    /\ dlq'.pc # "awaiting"
    /\ LET id == Head(dlq.todo).id
       IN  /\ failed_emails[id].lead_id = l
           /\ failed_emails[id].content = email_type
           /\ failed_emails'[id].status = "resolved"

(* A follow-up of the given type has been delivered to lead l before. *)
DeliveredBefore(l, email_type) ==
    \/ email_type = "followup_5day" /\ scraped_data[l].followup_5day_delivered
    \/ email_type = "followup_10day" /\ scraped_data[l].followup_10_sent = "true"
    \/ \E i \in DOMAIN failed_emails :
          /\ failed_emails[i].lead_id = l
          /\ failed_emails[i].content = email_type
          /\ failed_emails[i].status = "resolved"

(* C37: for each lead at most one 5-day and at most one 10-day follow-up  *)
(* is ever delivered, by the follow-up sweeps and the DLQ retry sweeps      *)
(* together, also after a follow-up delivery failed and went to the DLQ.   *)
C37_OneFollowupOfEachType ==
    [][\A l \in Leads, email_type \in {"followup_5day", "followup_10day"} :
          (SweepDelivers(l, email_type) \/ RetryDelivers(l, email_type))
          => ~DeliveredBefore(l, email_type)]_vars

(* C20: in an outreach pass (immediate send or queue pass) a lead moves to *)
(* failed exactly when one dead letter queue entry is added for it: every  *)
(* delivery failure or exception yields both.                              *)
C20_FailureMarksFailedAndQueues ==
    [][\A l \in Leads :
         (dlq' = dlq /\ dlq2' = dlq2)
             => ((/\ Len(failed_emails') = Len(failed_emails) + 1
                  /\ failed_emails'[Len(failed_emails')].lead_id = l)
                 <=> (/\ scraped_data[l].mail_status # "failed"
                      /\ scraped_data'[l].mail_status = "failed"))]_vars
====
